---------------------------- MODULE Spec2Model ----------------------------
(***************************************************************************)
(* crossterm-input: the escape-sequence decoder (src/sys/unix.rs,          *)
(* parse_event and its helpers), the TTY reading thread with its event     *)
(* channels and provider (src/sys/unix.rs), and the reader front-ends of   *)
(* src/input/unix.rs.                                                      *)
(*                                                                         *)
(* Bytes are naturals 0..255, buffers are sequences of bytes.  Rust slices *)
(* are 0-based, TLA+ sequences 1-based: buffer[i] of the source is         *)
(* buffer[i + 1] here.                                                     *)
(***************************************************************************)
EXTENDS Integers, Sequences, FiniteSets, TLC

(***************************************************************************)
(* Event model.  An event is a 5-tuple <<type, kind, button, a, b>>.       *)
(***************************************************************************)
NoEvent == <<"None", "", "", 0, 0>>
Key(k) == <<"Keyboard", k, "", 0, 0>>
KeyArg(k, n) == <<"Keyboard", k, "", n, 0>>
MousePress(btn, x, y) == <<"Mouse", "Press", btn, x, y>>
MouseRelease(x, y) == <<"Mouse", "Release", "", x, y>>
MouseHold(x, y) == <<"Mouse", "Hold", "", x, y>>
MouseUnknown == <<"Mouse", "Unknown", "", 0, 0>>
Unknown == <<"Unknown", "", "", 0, 0>>
CursorPosition(x, y) == <<"CursorPosition", "", "", x, y>>

(***************************************************************************)
(* Result<Option<InternalEvent>> of the parse functions:                   *)
(*   Ok(None) -> Incomplete, Err(_) -> Invalid, Ok(Some(e)) -> Event.      *)
(* ovf records that an integer operation on the way left the range of its  *)
(* type: a build with overflow checks panics there, a build without them   *)
(* wraps and goes on to the result given in kind/ev.                       *)
(***************************************************************************)
Incomplete == [kind |-> "Incomplete", ev |-> NoEvent, ovf |-> FALSE]
Invalid == [kind |-> "Invalid", ev |-> NoEvent, ovf |-> FALSE]
Event(e) == [kind |-> "Event", ev |-> e, ovf |-> FALSE]
WithOvf(r, o) == [r EXCEPT !.ovf = @ \/ o]

ESC == 27
U16Max == 65535
U8Max == 255

\* x - 1 on a u16, wrapping
U16Keep(x) == x

U16Dec(x) == (x + U16Max) % (U16Max + 1)

(***************************************************************************)
(* std::str::from_utf8: validity of a whole byte string, and the first     *)
(* scalar of a valid one.                                                  *)
(***************************************************************************)
IsCont(b) == b >= 128 /\ b <= 191

\* Number of bytes of the well-formed UTF-8 scalar at the head of s, 0 if none.
Utf8Width_lenient(s) ==
    IF s = <<>> THEN 0
    ELSE LET b == s[1] IN
      IF b < 128 THEN 1
      ELSE IF b >= 192 /\ b <= 223
        THEN IF Len(s) >= 2 /\ IsCont(s[2]) THEN 2 ELSE 0
      ELSE IF b >= 224 /\ b <= 239
        THEN IF Len(s) >= 3 /\ IsCont(s[2]) /\ IsCont(s[3]) THEN 3 ELSE 0
      ELSE IF b >= 240 /\ b <= 247
        THEN IF Len(s) >= 4 /\ IsCont(s[2]) /\ IsCont(s[3]) /\ IsCont(s[4])
             THEN 4 ELSE 0
      ELSE 0

Utf8Width(s) ==
    IF s = <<>> THEN 0
    ELSE LET b == s[1] IN
      IF b < 128 THEN 1
      ELSE IF b >= 194 /\ b <= 223
        THEN IF Len(s) >= 2 /\ IsCont(s[2]) THEN 2 ELSE 0
      ELSE IF b >= 224 /\ b <= 239
        THEN IF /\ Len(s) >= 3
                /\ IsCont(s[2])
                /\ IsCont(s[3])
                /\ (b = 224 => s[2] >= 160)
                /\ (b = 237 => s[2] <= 159)
             THEN 3 ELSE 0
      ELSE IF b >= 240 /\ b <= 244
        THEN IF /\ Len(s) >= 4
                /\ IsCont(s[2])
                /\ IsCont(s[3])
                /\ IsCont(s[4])
                /\ (b = 240 => s[2] >= 144)
                /\ (b = 244 => s[2] <= 143)
             THEN 4 ELSE 0
      ELSE 0

RECURSIVE from_utf8_ok(_)
from_utf8_ok(s) ==
    IF s = <<>> THEN TRUE
    ELSE LET w == Utf8Width(s) IN
         IF w = 0 THEN FALSE ELSE from_utf8_ok(SubSeq(s, w + 1, Len(s)))

\* s.chars().next() of a valid non-empty string: the scalar value
FirstChar(s) ==
    LET w == Utf8Width(s) IN
    IF w = 1 THEN s[1]
    ELSE IF w = 2 THEN (s[1] - 192) * 64 + (s[2] - 128)
    ELSE IF w = 3 THEN (s[1] - 224) * 4096 + (s[2] - 128) * 64 + (s[3] - 128)
    ELSE (s[1] - 240) * 262144 + (s[2] - 128) * 4096 + (s[3] - 128) * 64 + (s[4] - 128)

(***************************************************************************)
(* s.split(';') and str::parse::<u16>() / ::<u8>()                         *)
(***************************************************************************)
RECURSIVE Split(_)
Split(s) ==
    IF \A i \in 1..Len(s) : s[i] # 59 THEN <<s>>
    ELSE LET p == CHOOSE i \in 1..Len(s) : s[i] = 59 /\ \A j \in 1..(i - 1) : s[j] # 59
         IN <<SubSeq(s, 1, p - 1)>> \o Split(SubSeq(s, p + 1, Len(s)))

\* value of a digit string, saturating just above the u16 range
RECURSIVE DigitsValue(_)
DigitsValue(d) ==
    IF d = <<>> THEN 0
    ELSE LET v == DigitsValue(SubSeq(d, 1, Len(d) - 1)) * 10 + (d[Len(d)] - 48)
         IN IF v > U16Max THEN U16Max + 1 ELSE v

\* parse::<uN>() with N's maximum max: the value, or -1 for Err.
\* An optional leading '+' is accepted, then at least one decimal digit.
ParseNum(f, max) ==
    LET d == IF f # <<>> /\ f[1] = 43 THEN Tail(f) ELSE f IN
    IF d = <<>> \/ \E i \in 1..Len(d) : d[i] < 48 \/ d[i] > 57 THEN -1
    ELSE LET v == DigitsValue(d) IN IF v > max THEN -1 ELSE v

\* next_parsed::<T>(iter) for the i-th call on the iterator over fields
next_parsed(fields, i, max) ==
    IF i > Len(fields) THEN -1 ELSE ParseNum(fields[i], max)

(***************************************************************************)
(* The decoder                                                             *)
(***************************************************************************)
parse_utf8_char(buffer) ==
    IF from_utf8_ok(buffer)
    THEN IF buffer = <<>> THEN Invalid ELSE Event(KeyArg("Char", FirstChar(buffer)))
    ELSE LET b == buffer[1] IN
      IF (b >= 128 /\ b <= 191) \/ b >= 248 THEN Invalid
      ELSE LET required_bytes == IF b <= 127 THEN 1
                                 ELSE IF b <= 223 THEN 2
                                 ELSE IF b <= 239 THEN 3 ELSE 4
           IN IF /\ required_bytes > 1
                 /\ Len(buffer) > 1
                 /\ \E i \in 2..Len(buffer) : ~IsCont(buffer[i])
              THEN Invalid
              ELSE IF Len(buffer) < required_bytes THEN Incomplete ELSE Invalid

parse_csi_cursor_position_row_first(buffer) ==
    LET s == SubSeq(buffer, 3, Len(buffer) - 1) IN
    IF ~from_utf8_ok(s) THEN Invalid
    ELSE LET split == Split(s)
             y == next_parsed(split, 1, U16Max)
             x == next_parsed(split, 2, U16Max)
         IN IF y = -1 THEN Invalid
            ELSE IF x = -1 THEN WithOvf(Invalid, y = 0)
            ELSE WithOvf(Event(CursorPosition(U16Dec(y), U16Dec(x))), y = 0 \/ x = 0)

parse_csi_cursor_position(buffer) ==
    LET s == SubSeq(buffer, 3, Len(buffer) - 1) IN
    IF ~from_utf8_ok(s) THEN Invalid
    ELSE LET split == Split(s)
             y == next_parsed(split, 1, U16Max)
             x == next_parsed(split, 2, U16Max)
         IN IF y = -1 THEN Invalid
            ELSE IF x = -1 THEN WithOvf(Invalid, y = 0)
            ELSE WithOvf(Event(CursorPosition(U16Dec(x), U16Dec(y))), y = 0 \/ x = 0)

parse_csi_modifier_key_code_third(buffer) ==
    LET modifier == buffer[3]
        key == buffer[Len(buffer)]
    IN Event(
         IF modifier = 53 /\ key = 65 THEN Key("CtrlUp")
         ELSE IF modifier = 53 /\ key = 66 THEN Key("CtrlDown")
         ELSE IF modifier = 53 /\ key = 67 THEN Key("CtrlRight")
         ELSE IF modifier = 53 /\ key = 68 THEN Key("CtrlLeft")
         ELSE IF modifier = 50 /\ key = 65 THEN Key("ShiftUp")
         ELSE IF modifier = 50 /\ key = 66 THEN Key("ShiftDown")
         ELSE IF modifier = 50 /\ key = 67 THEN Key("ShiftRight")
         ELSE IF modifier = 50 /\ key = 68 THEN Key("ShiftLeft")
         ELSE Unknown)

parse_csi_modifier_key_code(buffer) ==
    LET modifier == buffer[Len(buffer) - 1]
        key == buffer[Len(buffer)]
    IN Event(
         IF modifier = 53 /\ key = 65 THEN Key("CtrlUp")
         ELSE IF modifier = 53 /\ key = 66 THEN Key("CtrlDown")
         ELSE IF modifier = 53 /\ key = 67 THEN Key("CtrlRight")
         ELSE IF modifier = 53 /\ key = 68 THEN Key("CtrlLeft")
         ELSE IF modifier = 50 /\ key = 65 THEN Key("ShiftUp")
         ELSE IF modifier = 50 /\ key = 66 THEN Key("ShiftDown")
         ELSE IF modifier = 50 /\ key = 67 THEN Key("ShiftRight")
         ELSE IF modifier = 50 /\ key = 68 THEN Key("ShiftLeft")
         ELSE Unknown)

parse_csi_special_key_code(buffer) ==
    LET s == SubSeq(buffer, 3, Len(buffer) - 1) IN
    IF ~from_utf8_ok(s) THEN Invalid
    ELSE LET split == Split(s)
             first == next_parsed(split, 1, U8Max)
         IN IF first = -1 THEN Invalid
            ELSE IF next_parsed(split, 2, U8Max) # -1 THEN Event(Unknown)
            ELSE Event(
              IF first \in {1, 7} THEN Key("Home")
              ELSE IF first = 2 THEN Key("Insert")
              ELSE IF first = 3 THEN Key("Delete")
              ELSE IF first \in {4, 8} THEN Key("End")
              ELSE IF first = 5 THEN Key("PageUp")
              ELSE IF first = 6 THEN Key("PageDown")
              ELSE IF first \in 11..15 THEN KeyArg("F", first - 10)
              ELSE IF first \in 17..21 THEN KeyArg("F", first - 11)
              ELSE IF first \in 23..24 THEN KeyArg("F", first - 12)
              ELSE Unknown)

parse_csi_rxvt_mouse(buffer) ==
    LET s == SubSeq(buffer, 3, Len(buffer) - 1) IN
    IF ~from_utf8_ok(s) THEN Invalid
    ELSE LET split == Split(s)
             cb == next_parsed(split, 1, U16Max)
             rx == next_parsed(split, 2, U16Max)
             ry == next_parsed(split, 3, U16Max)
             cx == U16Dec(rx)
             cy == U16Dec(ry)
         IN IF cb = -1 \/ rx = -1 THEN Invalid
            ELSE IF ry = -1 THEN WithOvf(Invalid, rx = 0)
            ELSE WithOvf(Event(
                   IF cb = 32 THEN MousePress("Left", cx, cy)
                   ELSE IF cb = 33 THEN MousePress("Middle", cx, cy)
                   ELSE IF cb = 34 THEN MousePress("Right", cx, cy)
                   ELSE IF cb = 35 THEN MouseRelease(cx, cy)
                   ELSE IF cb = 64 THEN MouseHold(cx, cy)
                   ELSE IF cb \in {96, 97} THEN MousePress("WheelUp", cx, cy)
                   ELSE MouseUnknown), rx = 0 \/ ry = 0)

parse_csi_x10_mouse(buffer) ==
    IF Len(buffer) < 6 THEN Incomplete
    ELSE LET \* buffer[3] as i8 - 32, kept as its two's-complement byte
             b3 == IF buffer[4] >= 128 THEN buffer[4] - 256 ELSE buffer[4]
             cbOvf == b3 - 32 < -128
             cb == (b3 - 32 + 256) % 256
             sx == IF buffer[5] > 32 THEN buffer[5] - 32 ELSE 0
             sy == IF buffer[6] > 32 THEN buffer[6] - 32 ELSE 0
             cx == U16Dec(sx)
             cy == U16Dec(sy)
             bit6 == (cb \div 64) % 2 = 1
         IN WithOvf(Event(
              IF cb % 4 = 0
                THEN IF bit6 THEN MousePress("WheelUp", cx, cy)
                             ELSE MousePress("Left", cx, cy)
              ELSE IF cb % 4 = 1
                THEN IF bit6 THEN MousePress("WheelDown", cx, cy)
                             ELSE MousePress("Middle", cx, cy)
              ELSE IF cb % 4 = 2 THEN MousePress("Right", cx, cy)
              ELSE MouseRelease(cx, cy)), cbOvf \/ sx = 0 \/ sy = 0)

parse_csi_xterm_mouse(buffer) ==
    IF buffer[Len(buffer)] \notin {109, 77} THEN Incomplete
    ELSE LET s == SubSeq(buffer, 4, Len(buffer) - 1) IN
      IF ~from_utf8_ok(s) THEN Invalid
      ELSE LET split == Split(s)
               cb == next_parsed(split, 1, U16Max)
               rx == next_parsed(split, 2, U16Max)
               ry == next_parsed(split, 3, U16Max)
               cx == U16Dec(rx)
               cy == U16Dec(ry)
               last == buffer[Len(buffer)]
           IN IF cb = -1 \/ rx = -1 THEN Invalid
              ELSE IF ry = -1 THEN WithOvf(Invalid, rx = 0)
              ELSE WithOvf(Event(
                     IF cb \in {0, 1, 2, 64, 65}
                       THEN LET button == IF cb = 0 THEN "Left"
                                          ELSE IF cb = 1 THEN "Middle"
                                          ELSE IF cb = 2 THEN "Right"
                                          ELSE IF cb = 64 THEN "WheelUp"
                                          ELSE "WheelDown"
                            IN IF last = 77 THEN MousePress(button, cx, cy)
                               ELSE MouseRelease(cx, cy)
                     ELSE IF cb = 32 THEN MouseHold(cx, cy)
                     ELSE IF cb = 3 THEN MouseRelease(cx, cy)
                     ELSE Unknown), rx = 0 \/ ry = 0)

parse_csi(buffer) ==
    IF Len(buffer) = 2 THEN Incomplete
    ELSE LET b == buffer[3] IN
      IF b = 91
        THEN IF Len(buffer) = 3 THEN Incomplete
             ELSE IF buffer[4] \in 65..69 THEN Event(KeyArg("F", 1 + buffer[4] - 65))
             ELSE Event(Unknown)
      ELSE IF b = 68 THEN Event(Key("Left"))
      ELSE IF b = 67 THEN Event(Key("Right"))
      ELSE IF b = 65 THEN Event(Key("Up"))
      ELSE IF b = 66 THEN Event(Key("Down"))
      ELSE IF b = 72 THEN Event(Key("Home"))
      ELSE IF b = 70 THEN Event(Key("End"))
      ELSE IF b = 90 THEN Event(Key("BackTab"))
      ELSE IF b = 77 THEN parse_csi_x10_mouse(buffer)
      ELSE IF b = 60 THEN parse_csi_xterm_mouse(buffer)
      ELSE IF b \in 48..57
        THEN IF Len(buffer) = 3 THEN Incomplete
             ELSE LET last_byte == buffer[Len(buffer)] IN
               IF last_byte < 64 \/ last_byte > 126 THEN Incomplete
               ELSE IF last_byte = 77 THEN parse_csi_rxvt_mouse(buffer)
               ELSE IF last_byte = 126 THEN parse_csi_special_key_code(buffer)
               ELSE IF last_byte = 82 THEN parse_csi_cursor_position(buffer)
               ELSE parse_csi_modifier_key_code(buffer)
      ELSE Event(Unknown)

\* the one-byte buffer [ESC]: "Possible Esc sequence" while input is available
parse_esc_alone_eager(input_available) == Event(Key("Esc"))

parse_esc_alone(input_available) ==
    IF input_available THEN Incomplete ELSE Event(Key("Esc"))

\* the byte after ESC 'O': `val @ b'P'..=b'S'` => F(1 + val - b'P'), else Err
parse_ss3_from_zero(val) ==
    IF val \in 80..83 THEN Event(KeyArg("F", val - 80)) ELSE Invalid

parse_ss3(val) ==
    IF val \in 80..83 THEN Event(KeyArg("F", 1 + val - 80)) ELSE Invalid

\* `(c as u8 - 0x1 + b'a') as char`
ctrl_letter_upper(c) == c - 1 + 65

ctrl_letter(c) == c - 1 + 97

\* `(c as u8 - 0x1C + b'4') as char`
ctrl_digit(c) == c - 28 + 52

parse_event(buffer, input_available) ==
    IF buffer = <<>> THEN Incomplete
    ELSE LET c == buffer[1] IN
      IF c = ESC
        THEN IF Len(buffer) = 1 THEN parse_esc_alone(input_available)
             ELSE IF buffer[2] = 79
               THEN IF Len(buffer) = 2 THEN Incomplete
                    ELSE parse_ss3(buffer[3])
             ELSE IF buffer[2] = 91 THEN parse_csi(buffer)
             ELSE IF buffer[2] = ESC THEN Event(Key("Esc"))
             ELSE parse_utf8_char(buffer)
      ELSE IF c \in {13, 10} THEN Event(Key("Enter"))
      ELSE IF c = 9 THEN Event(Key("Tab"))
      ELSE IF c = 127 THEN Event(Key("Backspace"))
      ELSE IF c \in 1..26 THEN Event(KeyArg("Ctrl", ctrl_letter(c)))
      ELSE IF c \in 28..31 THEN Event(KeyArg("Ctrl", ctrl_digit(c)))
      ELSE IF c = 0 THEN Event(Key("Null"))
      ELSE parse_utf8_char(buffer)

(***************************************************************************)
(* The Windows source, src/sys/winapi.rs                                   *)
(***************************************************************************)
\* virtual-key codes imported from winapi::um::winuser
VK_BACK == 8
VK_SHIFT == 16
VK_CONTROL == 17
VK_MENU == 18
VK_ESCAPE == 27
VK_RETURN == 13
VK_PRIOR == 33
VK_NEXT == 34
VK_END == 35
VK_HOME == 36
VK_LEFT == 37
VK_UP == 38
VK_RIGHT == 39
VK_DOWN == 40
VK_INSERT == 45
VK_DELETE == 46
VK_F1 == 112
VK_F12 == 123

\* the bits of control_key_state imported from winapi::um::wincon; a state is
\* the set of the bits that are set
ControlKeyBits ==
    {"RIGHT_ALT_PRESSED", "LEFT_ALT_PRESSED", "RIGHT_CTRL_PRESSED",
     "LEFT_CTRL_PRESSED", "SHIFT_PRESSED"}

\* ControlKeyState::has_state(mask): some bit of the mask is set
has_state(state, mask) == state \cap mask # {}

\* char::is_alphabetic of a `u8 as char`, a code point of Latin-1
is_alphabetic(c) ==
    \/ c \in 65..90
    \/ c \in 97..122
    \/ c \in {170, 181, 186}
    \/ c \in 192..214
    \/ c \in 216..246
    \/ c \in 248..255

\* Option<KeyEvent>: None is NoEvent, Some(k) is the keyboard event of k
arrow_key(plain, ctrl_pressed, shift_pressed) ==
    IF ctrl_pressed THEN Key("Ctrl" \o plain)
    ELSE IF shift_pressed THEN Key("Shift" \o plain)
    ELSE Key(plain)

parse_key_event_record(key_event) ==
    LET key_code == key_event.virtual_key_code
        key_state == key_event.control_key_state
    IN
    IF key_code \in {VK_SHIFT, VK_CONTROL, VK_MENU} THEN NoEvent
    ELSE IF key_code = VK_BACK THEN Key("Backspace")
    ELSE IF key_code = VK_ESCAPE THEN Key("Esc")
    ELSE IF key_code = VK_RETURN THEN Key("Enter")
    ELSE IF key_code \in VK_F1..VK_F12
      THEN KeyArg("F", (key_event.virtual_key_code - 111) % (U8Max + 1))
    ELSE IF key_code \in {VK_LEFT, VK_UP, VK_RIGHT, VK_DOWN}
      THEN LET ctrl_pressed ==
                   has_state(key_state, {"RIGHT_CTRL_PRESSED", "LEFT_CTRL_PRESSED"})
               shift_pressed == has_state(key_state, {"SHIFT_PRESSED"})
           IN IF key_code = VK_LEFT THEN arrow_key("Left", ctrl_pressed, shift_pressed)
              ELSE IF key_code = VK_UP THEN arrow_key("Up", ctrl_pressed, shift_pressed)
              ELSE IF key_code = VK_RIGHT
                THEN arrow_key("Right", ctrl_pressed, shift_pressed)
              ELSE arrow_key("Down", ctrl_pressed, shift_pressed)
    ELSE IF key_code = VK_PRIOR THEN Key("PageUp")
    ELSE IF key_code = VK_NEXT THEN Key("PageDown")
    ELSE IF key_code = VK_HOME THEN Key("Home")
    ELSE IF key_code = VK_END THEN Key("End")
    ELSE IF key_code = VK_DELETE THEN Key("Delete")
    ELSE IF key_code = VK_INSERT THEN Key("Insert")
    ELSE LET character_raw == key_event.u_char IN
      IF character_raw < 255
        THEN LET character == character_raw IN
          IF has_state(key_state, {"LEFT_ALT_PRESSED", "RIGHT_ALT_PRESSED"})
            THEN LET command == key_event.virtual_key_code % (U8Max + 1) IN
                 IF is_alphabetic(command) THEN KeyArg("Alt", command) ELSE NoEvent
          ELSE IF has_state(key_state, {"LEFT_CTRL_PRESSED", "RIGHT_CTRL_PRESSED"})
            THEN IF character_raw \in 1..26
                   THEN KeyArg("Ctrl", character_raw - 1 + 97)
                 ELSE IF character_raw \in 28..31
                   THEN KeyArg("Ctrl", character_raw - 28 + 52)
                 ELSE NoEvent
          ELSE IF has_state(key_state, {"SHIFT_PRESSED"}) /\ character = 9
            THEN Key("BackTab")
          ELSE IF character = 9 THEN Key("Tab")
          ELSE KeyArg("Char", character)
      ELSE NoEvent

\* `xpos as u16` of an i16 coordinate
AsU16(x) == x % (U16Max + 1)

parse_mouse_event_record(event) ==
    LET xpos == event.mouse_position.x
        ypos == event.mouse_position.y
    IN
    IF event.event_flags = "PressOrRelease"
      THEN IF event.button_state = "Release"
             THEN MouseRelease(AsU16(xpos), AsU16(ypos))
           ELSE IF event.button_state = "FromLeft1stButtonPressed"
             THEN MousePress("Left", AsU16(xpos), AsU16(ypos))
           ELSE IF event.button_state = "RightmostButtonPressed"
             THEN MousePress("Right", AsU16(xpos), AsU16(ypos))
           ELSE IF event.button_state = "FromLeft2ndButtonPressed"
             THEN MousePress("Middle", AsU16(xpos), AsU16(ypos))
           ELSE NoEvent
    ELSE IF event.event_flags = "MouseMoved"
      THEN IF event.button_state # "Release"
             THEN MouseHold(AsU16(xpos), AsU16(ypos))
           ELSE NoEvent
    ELSE IF event.event_flags = "MouseWheeled"
      THEN IF event.button_state # "Negative"
             THEN MousePress("WheelUp", AsU16(xpos), AsU16(ypos))
           ELSE MousePress("WheelDown", AsU16(xpos), AsU16(ypos))
    ELSE NoEvent

handle_mouse_event_hold_released(mouse_event) ==
    IF mouse_event.event_flags = "MouseMoved"
      THEN MouseHold(AsU16(mouse_event.mouse_position.x),
                     AsU16(mouse_event.mouse_position.y))
      ELSE parse_mouse_event_record(mouse_event)

handle_mouse_event(mouse_event) == parse_mouse_event_record(mouse_event)

handle_key_event_any(key_event) == parse_key_event_record(key_event)

handle_key_event(key_event) ==
    IF key_event.key_down THEN parse_key_event_record(key_event) ELSE NoEvent

\* the match on input.event_type
read_single_event(input_record) ==
    IF input_record.event_type = "KeyEvent"
      THEN handle_key_event(input_record.event)
    ELSE IF input_record.event_type = "MouseEvent"
      THEN handle_mouse_event(input_record.event)
    ELSE NoEvent

(***************************************************************************)
(* State                                                                   *)
(***************************************************************************)
VARIABLES
    \* the body of the reading loop on its own (TtyReadingThread::new)
    buffer,            \* buffer: Vec<u8> after the iteration
    input_available,   \* result of the zero-timeout select of the iteration
    parsed,            \* the buffer as it was handed to parse_event
    result,            \* what parse_event returned
    sent,              \* the event handed to channels.send, NoEvent if none
    prev_kind,         \* kind of the result of the previous iteration ("None" at start)
    loop_state,        \* "select" (top of the loop), "decoded" (after the match),
                       \* "panicked" (an overflow check fired in parse_event)
    calls              \* the parse_event calls made so far, each with its
                       \* arguments and its result (kept by SpecCalls only)

VARIABLES
    \* the provider, its channels and the reading threads (src/sys/unix.rs)
    tty,               \* bytes waiting in the terminal device
    produced,          \* number of bytes the terminal has produced so far
    senders,           \* UnixInternalEventChannels.senders: Vec<Sender>, by consumer id
    queue,             \* per channel: the events sent and not yet received
    handle,            \* per consumer: its Receiver: "none", "pending" (created,
                       \* receiver() not yet returned), "live", "dropped"
    cpc,               \* per consumer: the thread calling internal_event_receiver():
                       \* "idle", "locked", "done", "panicked"
    observed,          \* per consumer: what it has received so far (while it lives)
    regAt,             \* per consumer: number of events published when it registered
    published,         \* every event handed to channels.send, in order
    providerLock,      \* INTERNAL_EVENT_PROVIDER: "free", "held", "poisoned"
    reading_thread,    \* UnixInternalEventProvider.reading_thread: 0 (None) or a thread
    shutdown,          \* per thread: TtyReadingThread.shutdown
    wpc,               \* per thread: where the reading thread is
    wbuf,              \* per thread: its decode buffer
    wev,               \* per thread: the event it is about to send
    polls_after_drop,  \* select calls made since the last receiver was dropped
    device_ok,         \* FALSE once the terminal device fails: every select and
                       \* read of it returns Err
    werr,              \* per thread: a select or read of it has returned Err
    \* the readers of src/input/unix.rs
    rtty,              \* bytes waiting in the terminal device
    rproduced,         \* number of bytes the terminal has produced so far
    rkind,             \* per reader: "none", "async", "until", "sync"
    rdelim,            \* per reader: the delimiter of read_until_async, -1 if none
    rcreatedAt,        \* per reader: number of bytes consumed when it was created
    rdropped,          \* per reader: the reader has been dropped
    rshutdown,         \* per reader: AsyncReader.shutdown
    rpanicked,         \* per reader: a call of next() panicked
    rchan,             \* per reader: AsyncReader's byte channel
    leftover,          \* per reader: SyncReader.leftover, 0 for None
    spending,          \* per reader: bytes SyncReader::next holds while it parses
    rgot,              \* per reader: the bytes it took from the device
    rgotAtDrop,        \* per reader: how many of them before it was dropped
    revents,           \* per reader: the events its next() has returned
    consumed,          \* every byte taken from the device, in order
    \* --- the Windows source, src/sys/winapi.rs ---
    input,             \* the console input record read_single_event has read
    returned,          \* what read_single_event returned for it
    \* --- the input pool and its streams, src/rewrite ---
    event_channel,     \* the shrev channel: every event written, in write order
    read_id,           \* per stream: events of the channel its reader is past, -1 unregistered
    input_cache,       \* per stream: InputStream.input_cache
    registered_at,     \* per stream: events written when its reader registered, -1 none
    read_upto,         \* per stream: events written at its last read_all
    read_log,          \* per stream: what all its read_all calls returned, in order
    read_count,        \* per stream: accessor calls made on it
    accessor,          \* per stream: the accessor called last
    drained,           \* per stream: what that accessor returned
    pool_lock,         \* the thread holding the guard of INPUT, "free" if none
    poisoned,          \* a thread panicked while it held INPUT
    tpc,               \* per thread: where it is in its use of the pool
    polled,            \* per thread: what the input source returned to its poll
    \* --- a stream of well-formed sequences fed to the reading loop ---
    stream,            \* the sequences the terminal sends, each with its event
    seq_i,             \* the sequence the next byte belongs to
    taken,             \* the bytes of that sequence the loop has read
    emitted,           \* the events the loop has sent, in order
    \* --- TtyRaw and the descriptors of the process (src/sys/unix.rs) ---
    files,             \* per descriptor number: what it is open on ("closed" if not)
    tty_fd,            \* TtyRaw.fd: a descriptor number, NoFd for None
    source,            \* branch TtyRaw::new took: "stdin", "devtty", "none"
    term_bytes,        \* bytes waiting on the controlling terminal
    tpos,              \* the worker: "idle", "new", "select", "read"
    ready,             \* result of the last select: "none", "true", "false", "err"
    seen_bytes,        \* term_bytes at the time of the last select
    selects,           \* select calls made so far
    got                \* per read() that returned a byte: what the byte came from

dvars == <<buffer, input_available, parsed, result, sent, prev_kind, loop_state,
           calls>>
svars == <<tty, produced, senders, queue, handle, cpc, observed, regAt, published,
           providerLock, reading_thread, shutdown, wpc, wbuf, wev, polls_after_drop,
           device_ok, werr>>
rvars == <<rtty, rproduced, rkind, rdelim, rcreatedAt, rdropped, rshutdown,
           rpanicked, rchan, leftover, spending, rgot, rgotAtDrop, revents,
           consumed>>
wvars == <<input, returned>>
pvars == <<event_channel, read_id, input_cache, registered_at, read_upto,
           read_log, read_count, accessor, drained, pool_lock, poisoned, tpc,
           polled>>
qvars == <<stream, seq_i, taken, emitted>>
fvars == <<files, tty_fd, source, term_bytes, tpos, ready, seen_bytes, selects, got>>
vars == <<dvars, svars, rvars, wvars, pvars, qvars, fvars>>

(***************************************************************************)
(* Bounds of the model                                                     *)
(***************************************************************************)
\* longest decode buffer explored
MaxLen == 7
\* number of internal_event_receiver() calls (consumer handles)
MaxConsumers == 2
\* number of bytes the terminal produces
MaxInput == 3
\* number of reading threads the model can hold at once
MaxThreads == 2
\* poll iterations granted to the worker for noticing that nobody listens
TeardownBound == 2

\* number of readers created through read_async / read_until_async / read_sync
MaxReaders == 2

Consumers == 1..MaxConsumers
Readers == 1..MaxReaders
Threads == 1..MaxThreads
\* bytes the terminal produces in the concurrent model: 'a', ESC
TtyBytes == {97, 27}

AllBytes == 0..255
\* bytes the terminal produces deep inside a sequence: ' ', '0' '1' '2' '5',
\* ';', 'A', 'M', 'R', 'm', '~', 0x80, 0xA0
TailBytes == {32, 48, 49, 50, 53, 59, 65, 77, 82, 109, 126, 128, 160}

\* The bytes offered after the given buffer content: every byte for the first
\* two bytes and for the byte that follows ESC 'O' and ESC '[', TailBytes deeper.
NextBytes(buf) ==
    IF Len(buf) <= 1 \/ (Len(buf) = 2 /\ buf[1] = ESC) THEN AllBytes ELSE TailBytes

(***************************************************************************)
(* Initial values                                                          *)
(***************************************************************************)
SysInit ==
    /\ tty = <<>>
    /\ produced = 0
    /\ senders = <<>>
    /\ queue = [c \in Consumers |-> <<>>]
    /\ handle = [c \in Consumers |-> "none"]
    /\ cpc = [c \in Consumers |-> "idle"]
    /\ observed = [c \in Consumers |-> <<>>]
    /\ regAt = [c \in Consumers |-> 0]
    /\ published = <<>>
    /\ providerLock = "free"
    /\ reading_thread = 0
    /\ shutdown = [t \in Threads |-> FALSE]
    /\ wpc = [t \in Threads |-> "unborn"]
    /\ wbuf = [t \in Threads |-> <<>>]
    /\ wev = [t \in Threads |-> NoEvent]
    /\ polls_after_drop = 0
    /\ device_ok = TRUE
    /\ werr = [t \in Threads |-> FALSE]

\* the provider part of the state while another part is looked at
SysIdle == SysInit

ReadersInit ==
    /\ rtty = <<>>
    /\ rproduced = 0
    /\ rkind = [r \in Readers |-> "none"]
    /\ rdelim = [r \in Readers |-> -1]
    /\ rcreatedAt = [r \in Readers |-> 0]
    /\ rdropped = [r \in Readers |-> FALSE]
    /\ rshutdown = [r \in Readers |-> FALSE]
    /\ rpanicked = [r \in Readers |-> FALSE]
    /\ rchan = [r \in Readers |-> <<>>]
    /\ leftover = [r \in Readers |-> 0]
    /\ spending = [r \in Readers |-> <<>>]
    /\ rgot = [r \in Readers |-> <<>>]
    /\ rgotAtDrop = [r \in Readers |-> 0]
    /\ revents = [r \in Readers |-> <<>>]
    /\ consumed = <<>>

\* the readers part of the state while another part is looked at
ReadersIdle == ReadersInit

\* no console input record has been read
NoInput == [event_type |-> "None", event |-> [none |-> TRUE]]

\* the Windows part of the state while another part is looked at
WinIdle ==
    /\ input = NoInput
    /\ returned = NoEvent

\* the streams and the threads of the pool model
Streams == {"stream1", "stream2"}
PoolThreads == {"poller", "user"}

\* Result<Option<InputEvent>> of a source: Ok(None)
SourceNone == [kind |-> "None", ev |-> NoEvent]

\* a new pool: an empty channel, no stream acquired, INPUT free
PoolInit ==
    /\ event_channel = <<>>
    /\ read_id = [s \in Streams |-> -1]
    /\ input_cache = [s \in Streams |-> <<>>]
    /\ registered_at = [s \in Streams |-> -1]
    /\ read_upto = [s \in Streams |-> 0]
    /\ read_log = [s \in Streams |-> <<>>]
    /\ read_count = [s \in Streams |-> 0]
    /\ accessor = [s \in Streams |-> "none"]
    /\ drained = [s \in Streams |-> <<>>]
    /\ pool_lock = "free"
    /\ poisoned = FALSE
    /\ tpc = [t \in PoolThreads |-> "idle"]
    /\ polled = [t \in PoolThreads |-> SourceNone]

PoolIdle == PoolInit

\* no stream of sequences is fed
ResumeIdle ==
    /\ stream = <<>>
    /\ seq_i = 1
    /\ taken = <<>>
    /\ emitted = <<>>

\* descriptors of the model: 0 .. MaxFd
MaxFd == 4
Fds == 0..MaxFd

\* TtyRaw { fd: None }
NoFd == -1

\* no TtyRaw is built
TtyIdle ==
    /\ files = [n \in Fds |-> "closed"]
    /\ tty_fd = NoFd
    /\ source = "none"
    /\ term_bytes = 0
    /\ tpos = "idle"
    /\ ready = "none"
    /\ seen_bytes = 0
    /\ selects = 0
    /\ got = <<>>

\* the decode-loop part of the state while the provider is looked at
DecodeIdle ==
    /\ buffer = <<>>
    /\ input_available = FALSE
    /\ parsed = <<>>
    /\ result = Incomplete
    /\ sent = NoEvent
    /\ prev_kind = "None"
    /\ loop_state = "select"
    /\ calls = <<>>

(***************************************************************************)
(* The body of the reading loop, src/sys/unix.rs 232-256                   *)
(***************************************************************************)
\* buffer after the match on parse_event's result
BufferAfter_keep_invalid(buf, r) == IF r.kind = "Event" THEN <<>> ELSE buf

BufferAfter_clear_always(buf, r) == <<>>

BufferAfter(buf, r) == IF r.kind = "Incomplete" THEN buf ELSE <<>>

\* the event given to channels.send, NoEvent when send is not called
ToSend(r) == IF r.kind = "Event" THEN r.ev ELSE NoEvent

DecodeInit ==
    /\ buffer = <<>>
    /\ input_available = FALSE
    /\ parsed = <<>>
    /\ result = Incomplete
    /\ sent = NoEvent
    /\ prev_kind = "None"
    /\ loop_state = "select"
    /\ calls = <<>>
    /\ SysIdle
    /\ ReadersIdle
    /\ WinIdle
    /\ PoolIdle
    /\ ResumeIdle
    /\ TtyIdle

\* One iteration in which select reported input: read a byte, push it, take
\* the hint, parse, clear or keep the buffer.  An arithmetic overflow inside
\* parse_event panics in a build with overflow checks and wraps otherwise.
ReadByte ==
    /\ loop_state = "select"
    /\ Len(buffer) < MaxLen
    /\ \E byte \in NextBytes(buffer), hint \in BOOLEAN :
         LET buf == Append(buffer, byte)
             r == parse_event(buf, hint)
         IN /\ parsed' = buf
            /\ input_available' = hint
            /\ result' = r
            /\ \/ /\ buffer' = BufferAfter(buf, r)
                  /\ sent' = ToSend(r)
                  /\ loop_state' = "decoded"
               \/ /\ r.ovf
                  /\ buffer' = buf
                  /\ sent' = NoEvent
                  /\ loop_state' = "panicked"
    /\ UNCHANGED <<prev_kind, calls, svars, rvars, wvars, pvars, qvars, fvars>>

\* End of the iteration: its locals go out of scope, the buffer stays.
LoopBack ==
    /\ loop_state = "decoded"
    /\ loop_state' = "select"
    /\ input_available' = FALSE
    /\ parsed' = <<>>
    /\ result' = Incomplete
    /\ sent' = NoEvent
    /\ prev_kind' = result.kind
    /\ UNCHANGED <<buffer, calls, svars, rvars, wvars, pvars, qvars, fvars>>

DecodeNext == ReadByte \/ LoopBack

SpecDecode == DecodeInit /\ [][DecodeNext]_vars

(***************************************************************************)
(* The provider: channels, receiver(), pause(), the reading thread         *)
(***************************************************************************)
\* UnixInternalEventChannels::receiver: a fresh channel, its sender pushed
channels_receiver_replay(snd, q, c) ==
    [senders |-> Append(snd, c),
     queue |-> [q EXCEPT ![c] = IF snd = <<>> THEN <<>> ELSE q[snd[1]]]]

channels_receiver(snd, q, c) ==
    [senders |-> Append(snd, c), queue |-> [q EXCEPT ![c] = <<>>]]

\* UnixInternalEventChannels::send: retain the senders whose send succeeds
\* (receiver not dropped), each of them gets a clone of the event
channels_send_first_only(snd, q, h, item) ==
    LET kept == SelectSeq(snd, LAMBDA c : h[c] # "dropped") IN
    [senders |-> kept,
     queue |-> [c \in Consumers |->
                  IF kept # <<>> /\ c = kept[1] THEN Append(q[c], item) ELSE q[c]],
     ok |-> kept # <<>>]

channels_send_never_empty(snd, q, h, item) ==
    LET kept == SelectSeq(snd, LAMBDA c : h[c] # "dropped") IN
    [senders |-> kept,
     queue |-> [c \in Consumers |->
                  IF \E i \in 1..Len(kept) : kept[i] = c
                  THEN Append(q[c], item) ELSE q[c]],
     ok |-> TRUE]

channels_send(snd, q, h, item) ==
    LET kept == SelectSeq(snd, LAMBDA c : h[c] # "dropped") IN
    [senders |-> kept,
     queue |-> [c \in Consumers |->
                  IF \E i \in 1..Len(kept) : kept[i] = c
                  THEN Append(q[c], item) ELSE q[c]],
     ok |-> kept # <<>>]

\* UnixInternalEventProvider::receiver: `if self.reading_thread.is_none()`
spawn_always(rt) == TRUE

spawn_needed(rt) == rt = 0

\* a thread that exists and has not terminated
Alive(t) == wpc[t] \in {"select", "send", "pause", "check", "joining", "join_hung"}
\* a thread that is still going round its loop
Running(t) == wpc[t] \in {"select", "send", "pause", "check"}

\* every receiver handed out so far has been dropped
AllDropped ==
    /\ \E c \in Consumers : handle[c] = "dropped"
    /\ \A c \in Consumers : handle[c] \in {"none", "dropped"}

CountPoll == IF AllDropped /\ polls_after_drop <= TeardownBound
             THEN polls_after_drop + 1 ELSE polls_after_drop

\* The terminal produces one more byte.
TtyInput ==
    /\ produced < MaxInput
    /\ \E b \in TtyBytes : tty' = Append(tty, b)
    /\ produced' = produced + 1
    /\ UNCHANGED <<senders, queue, handle, cpc, observed, regAt, published,
                   providerLock, reading_thread, shutdown, wpc, wbuf, wev,
                   polls_after_drop, device_ok,
                   werr, dvars, rvars, wvars, pvars, qvars, fvars>>

\* internal_event_receiver(): INTERNAL_EVENT_PROVIDER.lock().unwrap(), then
\* self.channels.receiver() inside UnixInternalEventProvider::receiver.
ReceiverEnter(c) ==
    /\ cpc[c] = "idle"
    /\ \A d \in Consumers : d < c => cpc[d] # "idle"
    /\ providerLock = "free"
    /\ providerLock' = "held"
    /\ LET r == channels_receiver(senders, queue, c) IN
         /\ senders' = r.senders
         /\ queue' = r.queue
    /\ handle' = [handle EXCEPT ![c] = "pending"]
    /\ regAt' = [regAt EXCEPT ![c] = Len(published)]
    /\ cpc' = [cpc EXCEPT ![c] = "locked"]
    /\ polls_after_drop' = 0
    /\ UNCHANGED <<tty, produced, observed, published, reading_thread, shutdown,
                   wpc, wbuf, wev, device_ok,
                   werr, dvars, rvars, wvars, pvars, qvars, fvars>>

\* internal_event_receiver() on a poisoned mutex: lock().unwrap() panics.
ReceiverPoisoned(c) ==
    /\ cpc[c] = "idle"
    /\ \A d \in Consumers : d < c => cpc[d] # "idle"
    /\ providerLock = "poisoned"
    /\ cpc' = [cpc EXCEPT ![c] = "panicked"]
    /\ UNCHANGED <<tty, produced, senders, queue, handle, observed, regAt, published,
                   providerLock, reading_thread, shutdown, wpc, wbuf, wev,
                   polls_after_drop, device_ok,
                   werr, dvars, rvars, wvars, pvars, qvars, fvars>>

\* The rest of UnixInternalEventProvider::receiver: spawn the reading thread
\* if there is none, return rx, release the provider lock.
ReceiverReturn(c) ==
    /\ cpc[c] = "locked"
    /\ IF spawn_needed(reading_thread)
       THEN \E t \in Threads :
              /\ wpc[t] = "unborn"
              /\ \A u \in Threads : u < t => wpc[u] # "unborn"
              /\ reading_thread' = t
              /\ wpc' = [wpc EXCEPT ![t] = "select"]
       ELSE UNCHANGED <<reading_thread, wpc>>
    /\ providerLock' = "free"
    /\ cpc' = [cpc EXCEPT ![c] = "done"]
    /\ handle' = [handle EXCEPT ![c] = "live"]
    /\ UNCHANGED <<tty, produced, senders, queue, observed, regAt, published,
                   shutdown, wbuf, wev, polls_after_drop, device_ok,
                   werr, dvars, rvars, wvars, pvars, qvars, fvars>>

\* The consumer takes the next event out of its receiver.
Recv(c) ==
    /\ handle[c] = "live"
    /\ queue[c] # <<>>
    /\ observed' = [observed EXCEPT ![c] = Append(@, Head(queue[c]))]
    /\ queue' = [queue EXCEPT ![c] = Tail(@)]
    /\ UNCHANGED <<tty, produced, senders, handle, cpc, regAt, published,
                   providerLock, reading_thread, shutdown, wpc, wbuf, wev,
                   polls_after_drop, device_ok,
                   werr, dvars, rvars, wvars, pvars, qvars, fvars>>

\* The consumer drops its receiver; what was queued for it and what it had
\* received are gone with it.
DropReceiver(c) ==
    /\ handle[c] = "live"
    /\ handle' = [handle EXCEPT ![c] = "dropped"]
    /\ queue' = [queue EXCEPT ![c] = <<>>]
    /\ observed' = [observed EXCEPT ![c] = <<>>]
    /\ UNCHANGED <<tty, produced, senders, cpc, regAt, published,
                   providerLock, reading_thread, shutdown, wpc, wbuf, wev,
                   polls_after_drop, device_ok,
                   werr, dvars, rvars, wvars, pvars, qvars, fvars>>

\* Reading thread, select(100 ms) times out: nothing to read.
WTimeout(t) ==
    /\ wpc[t] = "select"
    /\ device_ok
    /\ tty = <<>>
    /\ wpc' = [wpc EXCEPT ![t] = "check"]
    /\ polls_after_drop' = CountPoll
    /\ UNCHANGED <<tty, produced, senders, queue, handle, cpc, observed, regAt,
                   published, providerLock, reading_thread, shutdown, wbuf, wev,
                   device_ok,
                   werr, dvars, rvars, wvars, pvars, qvars, fvars>>

\* Reading thread, select reports input: read a byte, push it, select(0) for
\* the hint, parse, clear or keep the buffer.
WRead(t) ==
    /\ wpc[t] = "select"
    /\ device_ok
    /\ tty # <<>>
    /\ tty' = Tail(tty)
    /\ polls_after_drop' = CountPoll
    /\ LET buf == Append(wbuf[t], Head(tty))
           r == parse_event(buf, Tail(tty) # <<>>)
       IN \/ /\ wbuf' = [wbuf EXCEPT ![t] = BufferAfter(buf, r)]
             /\ wev' = [wev EXCEPT ![t] = ToSend(r)]
             /\ wpc' = [wpc EXCEPT ![t] = IF r.kind = "Event" THEN "send" ELSE "check"]
          \/ /\ r.ovf
             /\ wpc' = [wpc EXCEPT ![t] = "panicked"]
             /\ UNCHANGED <<wbuf, wev>>
    /\ UNCHANGED <<produced, senders, queue, handle, cpc, observed, regAt,
                   published, providerLock, reading_thread, shutdown, device_ok,
                   werr, dvars, rvars, wvars, pvars, qvars, fvars>>

\* Reading thread, channels.send(event).
WSend(t) ==
    /\ wpc[t] = "send"
    /\ LET r == channels_send(senders, queue, handle,
                              [ev |-> wev[t], n |-> Len(published) + 1])
       IN /\ senders' = r.senders
          /\ queue' = r.queue
          /\ wpc' = [wpc EXCEPT ![t] = IF r.ok THEN "check" ELSE "pause"]
    /\ published' = Append(published, wev[t])
    /\ wev' = [wev EXCEPT ![t] = NoEvent]
    /\ UNCHANGED <<tty, produced, handle, cpc, observed, regAt, providerLock,
                   reading_thread, shutdown, wbuf, polls_after_drop, device_ok,
                   werr, dvars, rvars, wvars, pvars, qvars, fvars>>

\* Reading thread, send returned false:
\* INTERNAL_EVENT_PROVIDER.lock().unwrap().pause().  pause() stores None in
\* reading_thread, which drops the TtyReadingThread: Drop stores the shutdown
\* flag and joins the thread.  Joined from the reading thread itself the join
\* cannot return: pthread_join either fails with EDEADLK, std panics, the
\* guard is dropped while panicking and the mutex is poisoned; or it blocks
\* for ever with the lock held.  A join of another thread waits for its exit.
WPause(t) ==
    /\ wpc[t] = "pause"
    /\ providerLock = "free"
    /\ reading_thread' = 0
    /\ shutdown' = [u \in Threads |-> shutdown[u] \/ u = reading_thread]
    /\ IF reading_thread = t
       THEN \/ /\ wpc' = [wpc EXCEPT ![t] = "join_panicked"]
               /\ providerLock' = "poisoned"
            \/ /\ wpc' = [wpc EXCEPT ![t] = "join_hung"]
               /\ providerLock' = "held"
       ELSE IF reading_thread = 0 \/ ~Alive(reading_thread)
       THEN /\ wpc' = [wpc EXCEPT ![t] = "check"]
            /\ providerLock' = "free"
       ELSE /\ wpc' = [wpc EXCEPT ![t] = "joining"]
            /\ providerLock' = "held"
    /\ UNCHANGED <<tty, produced, senders, queue, handle, cpc, observed, regAt,
                   published, wbuf, wev, polls_after_drop, device_ok,
                   werr, dvars, rvars, wvars, pvars, qvars, fvars>>

\* Reading thread, end of the iteration: shutdown_signal.load(), break or go
\* round again.  The exit releases a thread that waits in join for this one.
WCheck(t) ==
    /\ wpc[t] = "check"
    /\ IF shutdown[t]
       THEN /\ wpc' = [u \in Threads |->
                         IF u = t THEN "exited"
                         ELSE IF wpc[u] = "joining" THEN "check" ELSE wpc[u]]
            /\ providerLock' = IF \E u \in Threads : wpc[u] = "joining"
                               THEN "free" ELSE providerLock
       ELSE /\ wpc' = [wpc EXCEPT ![t] = "select"]
            /\ UNCHANGED providerLock
    /\ UNCHANGED <<tty, produced, senders, queue, handle, cpc, observed, regAt,
                   published, reading_thread, shutdown, wbuf, wev,
                   polls_after_drop, device_ok,
                   werr, dvars, rvars, wvars, pvars, qvars, fvars>>

\* The terminal device fails for good: no descriptor could be obtained
\* (TtyRaw::new left fd = None) or select/read on it return -1 from now on.
DeviceFail ==
    /\ device_ok
    /\ device_ok' = FALSE
    /\ UNCHANGED <<tty, produced, senders, queue, handle, cpc, observed, regAt,
                   published, providerLock, reading_thread, shutdown, wpc, wbuf,
                   wev, polls_after_drop, werr, dvars, rvars, wvars, pvars, qvars, fvars>>

\* Reading thread, select (or the read after it) returns Err: neither
\* `if let Ok(true) = tty_raw.select(..)` nor `if let Ok(byte) = tty_raw.read()`
\* matches, the body is skipped and the iteration ends at the shutdown check.
WIoError(t) ==
    /\ wpc[t] = "select"
    /\ ~device_ok
    /\ werr' = [werr EXCEPT ![t] = TRUE]
    /\ wpc' = [wpc EXCEPT ![t] = "check"]
    /\ polls_after_drop' = CountPoll
    /\ UNCHANGED <<tty, produced, senders, queue, handle, cpc, observed, regAt,
                   published, providerLock, reading_thread, shutdown, wbuf, wev,
                   device_ok, dvars, rvars, wvars, pvars, qvars, fvars>>

Init == SysInit /\ DecodeIdle /\ ReadersIdle /\ WinIdle /\ PoolIdle /\ ResumeIdle /\ TtyIdle

Next ==
    \/ TtyInput
    \/ DeviceFail
    \/ \E c \in Consumers :
         \/ ReceiverEnter(c)
         \/ ReceiverPoisoned(c)
         \/ ReceiverReturn(c)
         \/ Recv(c)
         \/ DropReceiver(c)
    \/ \E t \in Threads :
         \/ WTimeout(t)
         \/ WRead(t)
         \/ WSend(t)
         \/ WPause(t)
         \/ WCheck(t)
         \/ WIoError(t)

Spec == Init /\ [][Next]_vars

(***************************************************************************)
(* The readers of src/input/unix.rs: read_async, read_until_async,         *)
(* read_sync, AsyncReader, SyncReader                                      *)
(***************************************************************************)
\* bytes the terminal produces in the readers model: 'a', '\r', ESC and the
\* two bytes of the scalar U+017D (0xC5 0xBD)
ReaderBytes == {97, 13, 27, 197, 189}
\* delimiters handed to read_until_async: '\r'
Delimiters == {13}

\* What parse_event(item, iter) of src/input/unix.rs did: kind is "Ok"
\* (Ok(event)), "Err" (Err(error)) or "Panic" (an unwrap or an index
\* failed); used counts the bytes taken from iter; starved says that iter
\* returned None inside the call; ovf that an overflow check was passed.
IRes(kind, ev, used, starved) ==
    [kind |-> kind, ev |-> ev, used |-> used, starved |-> starved, ovf |-> FALSE]

\* iter.next() when n bytes of rest have been taken: -1 for None
IterNext(rest, n) == IF n + 1 <= Len(rest) THEN rest[n + 1] ELSE -1

UsedUpTo(rest, n) == IF n <= Len(rest) THEN n ELSE Len(rest)

\* parse_utf8_char(c, iter) of src/input/unix.rs; ev is the scalar value
input_parse_utf8_char(c, rest, n) ==
    IF c < 128 THEN IRes("Ok", c, n, FALSE)
    ELSE LET avail == Len(rest) - n
             bytes(k) == <<c>> \o SubSeq(rest, n + 1, n + k)
             stop(k) == k > avail \/ from_utf8_ok(bytes(k)) \/ k = 3
             k == CHOOSE i \in 1..3 : stop(i) /\ \A j \in 1..(i - 1) : ~stop(j)
         IN IF k > avail THEN IRes("Err", 0, Len(rest), TRUE)
            ELSE IF from_utf8_ok(bytes(k)) THEN IRes("Ok", FirstChar(bytes(k)), n + k, FALSE)
            ELSE IRes("Err", 0, n + k, FALSE)

\* parse_csi, the X10 arm: three bytes unwrapped from iter
input_parse_csi_x10(rest, n) ==
    IF Len(rest) < n + 3 THEN IRes("Panic", NoEvent, Len(rest), TRUE)
    ELSE LET b == IF rest[n + 1] >= 128 THEN rest[n + 1] - 256 ELSE rest[n + 1]
             cb == (b - 32 + 256) % 256
             cx == IF rest[n + 2] > 32 THEN rest[n + 2] - 32 ELSE 0
             cy == IF rest[n + 3] > 32 THEN rest[n + 3] - 32 ELSE 0
             bit6 == (cb \div 64) % 2 = 1
             ev == IF cb % 4 = 0
                     THEN IF bit6 THEN MousePress("WheelUp", cx, cy)
                                  ELSE MousePress("Left", cx, cy)
                   ELSE IF cb % 4 = 1
                     THEN IF bit6 THEN MousePress("WheelDown", cx, cy)
                                  ELSE MousePress("Middle", cx, cy)
                   ELSE IF cb % 4 = 2 THEN MousePress("Right", cx, cy)
                   ELSE MouseRelease(cx, cy)
         IN [IRes("Ok", ev, n + 3, FALSE) EXCEPT !.ovf = b - 32 < -128]

\* parse_csi, the xterm arm: bytes up to 'm' or 'M', three u16 fields
input_parse_csi_xterm(rest, n) ==
    IF \A j \in (n + 1)..Len(rest) : rest[j] \notin {109, 77}
    THEN IRes("Panic", NoEvent, Len(rest), TRUE)
    ELSE LET e == CHOOSE j \in (n + 1)..Len(rest) :
                    /\ rest[j] \in {109, 77}
                    /\ \A i \in (n + 1)..(j - 1) : rest[i] \notin {109, 77}
             buf == SubSeq(rest, n + 1, e - 1)
             nums == Split(buf)
             cb == next_parsed(nums, 1, U16Max)
             cx == next_parsed(nums, 2, U16Max)
             cy == next_parsed(nums, 3, U16Max)
         IN IF ~from_utf8_ok(buf) \/ cb = -1 \/ cx = -1 \/ cy = -1
            THEN IRes("Panic", NoEvent, e, FALSE)
            ELSE IRes("Ok",
                   IF cb \in {0, 1, 2, 64, 65}
                     THEN LET button == IF cb = 0 THEN "Left"
                                        ELSE IF cb = 1 THEN "Middle"
                                        ELSE IF cb = 2 THEN "Right"
                                        ELSE IF cb = 64 THEN "WheelUp"
                                        ELSE "WheelDown"
                          IN IF rest[e] = 77 THEN MousePress(button, cx, cy)
                             ELSE MouseRelease(cx, cy)
                   ELSE IF cb = 32 THEN MouseHold(cx, cy)
                   ELSE IF cb = 3 THEN MouseRelease(cx, cy)
                   ELSE Unknown, e, FALSE)

\* parse_csi, the numbered arm: c is the digit already taken, the rest is
\* read up to the final byte in 64..126
input_parse_csi_numbered(c, rest, n) ==
    IF \A j \in (n + 1)..Len(rest) : rest[j] < 64 \/ rest[j] > 126
    THEN IRes("Panic", NoEvent, Len(rest), TRUE)
    ELSE LET e == CHOOSE j \in (n + 1)..Len(rest) :
                    /\ rest[j] >= 64 /\ rest[j] <= 126
                    /\ \A i \in (n + 1)..(j - 1) : rest[i] < 64 \/ rest[i] > 126
             buf == <<c>> \o SubSeq(rest, n + 1, e - 1)
             fields == Split(buf)
             character == rest[e]
         IN IF character = 77
            THEN \* rxvt mouse: every field parsed as u16, nums[0..2] indexed
                 IF \/ ~from_utf8_ok(buf)
                    \/ \E i \in 1..Len(fields) : ParseNum(fields[i], U16Max) = -1
                    \/ Len(fields) < 3
                 THEN IRes("Panic", NoEvent, e, FALSE)
                 ELSE LET cb == ParseNum(fields[1], U16Max)
                          cx == ParseNum(fields[2], U16Max)
                          cy == ParseNum(fields[3], U16Max)
                      IN IRes("Ok",
                           IF cb = 32 THEN MousePress("Left", cx, cy)
                           ELSE IF cb = 33 THEN MousePress("Middle", cx, cy)
                           ELSE IF cb = 34 THEN MousePress("Right", cx, cy)
                           ELSE IF cb = 35 THEN MouseRelease(cx, cy)
                           ELSE IF cb = 64 THEN MouseHold(cx, cy)
                           ELSE IF cb \in {96, 97} THEN MousePress("WheelUp", cx, cy)
                           ELSE MouseUnknown, e, FALSE)
            ELSE IF character = 126
            THEN \* special key code: every field parsed as u8
                 IF \/ ~from_utf8_ok(buf)
                    \/ \E i \in 1..Len(fields) : ParseNum(fields[i], U8Max) = -1
                 THEN IRes("Panic", NoEvent, e, FALSE)
                 ELSE LET v == ParseNum(fields[1], U8Max) IN
                      IRes("Ok",
                        IF Len(fields) > 1 THEN Unknown
                        ELSE IF v \in {1, 7} THEN Key("Home")
                        ELSE IF v = 2 THEN Key("Insert")
                        ELSE IF v = 3 THEN Key("Delete")
                        ELSE IF v \in {4, 8} THEN Key("End")
                        ELSE IF v = 5 THEN Key("PageUp")
                        ELSE IF v = 6 THEN Key("PageDown")
                        ELSE IF v \in 11..15 THEN KeyArg("F", v - 10)
                        ELSE IF v \in 17..21 THEN KeyArg("F", v - 11)
                        ELSE IF v \in 23..24 THEN KeyArg("F", v - 12)
                        ELSE Unknown, e, FALSE)
            ELSE LET last == buf[Len(buf)] IN
                 IRes("Ok",
                   IF last = 53 /\ character = 65 THEN Key("CtrlUp")
                   ELSE IF last = 53 /\ character = 66 THEN Key("CtrlDown")
                   ELSE IF last = 53 /\ character = 67 THEN Key("CtrlRight")
                   ELSE IF last = 53 /\ character = 68 THEN Key("CtrlLeft")
                   ELSE IF last = 50 /\ character = 65 THEN Key("ShiftUp")
                   ELSE IF last = 50 /\ character = 66 THEN Key("ShiftDown")
                   ELSE IF last = 50 /\ character = 67 THEN Key("ShiftRight")
                   ELSE IF last = 50 /\ character = 68 THEN Key("ShiftLeft")
                   ELSE Unknown, e, FALSE)

\* parse_csi(iter) of src/input/unix.rs, called after ESC '[' was taken
input_parse_csi(rest, n) ==
    LET a == IterNext(rest, n) IN
    IF a = 91
      THEN LET val == IterNext(rest, n + 1) IN
           IRes("Ok", IF val \in 65..69 THEN KeyArg("F", 1 + val - 65) ELSE Unknown,
                UsedUpTo(rest, n + 2), val = -1)
    ELSE IF a = 68 THEN IRes("Ok", Key("Left"), n + 1, FALSE)
    ELSE IF a = 67 THEN IRes("Ok", Key("Right"), n + 1, FALSE)
    ELSE IF a = 65 THEN IRes("Ok", Key("Up"), n + 1, FALSE)
    ELSE IF a = 66 THEN IRes("Ok", Key("Down"), n + 1, FALSE)
    ELSE IF a = 72 THEN IRes("Ok", Key("Home"), n + 1, FALSE)
    ELSE IF a = 70 THEN IRes("Ok", Key("End"), n + 1, FALSE)
    ELSE IF a = 90 THEN IRes("Ok", Key("BackTab"), n + 1, FALSE)
    ELSE IF a = 77 THEN input_parse_csi_x10(rest, n + 1)
    ELSE IF a = 60 THEN input_parse_csi_xterm(rest, n + 1)
    ELSE IF a \in 48..57 THEN input_parse_csi_numbered(a, rest, n + 1)
    ELSE IRes("Ok", Unknown, UsedUpTo(rest, n + 1), a = -1)

\* parse_event(item, iter) of src/input/unix.rs; rest is what iter can yield
input_parse_event(item, rest) ==
    IF item = ESC
      THEN LET a == IterNext(rest, 0) IN
           IF a = 79
             THEN LET val == IterNext(rest, 1) IN
                  IF val \in 80..83 THEN IRes("Ok", KeyArg("F", 1 + val - 80), 2, FALSE)
                  ELSE IRes("Err", NoEvent, UsedUpTo(rest, 2), val = -1)
           ELSE IF a = 91 THEN input_parse_csi(rest, 1)
           ELSE IF a = ESC THEN IRes("Ok", Key("Esc"), 1, FALSE)
           ELSE IF a = -1 THEN IRes("Ok", Key("Esc"), 0, TRUE)
           ELSE LET ch == input_parse_utf8_char(a, rest, 1) IN
                IF ch.kind = "Ok" THEN [ch EXCEPT !.ev = KeyArg("Alt", ch.ev)]
                ELSE [ch EXCEPT !.ev = NoEvent]
    ELSE IF item \in {13, 10} THEN IRes("Ok", Key("Enter"), 0, FALSE)
    ELSE IF item = 9 THEN IRes("Ok", Key("Tab"), 0, FALSE)
    ELSE IF item = 127 THEN IRes("Ok", Key("Backspace"), 0, FALSE)
    ELSE IF item \in 1..26 THEN IRes("Ok", KeyArg("Ctrl", item - 1 + 97), 0, FALSE)
    ELSE IF item \in 28..31 THEN IRes("Ok", KeyArg("Ctrl", item - 28 + 52), 0, FALSE)
    ELSE IF item = 0 THEN IRes("Ok", Key("Null"), 0, FALSE)
    ELSE LET ch == input_parse_utf8_char(item, rest, 0) IN
         IF ch.kind = "Ok" THEN [ch EXCEPT !.ev = KeyArg("Char", ch.ev)]
         ELSE [ch EXCEPT !.ev = NoEvent]

\* The terminal produces one more byte.
ReaderTtyInput ==
    /\ rproduced < MaxInput
    /\ \E b \in ReaderBytes : rtty' = Append(rtty, b)
    /\ rproduced' = rproduced + 1
    /\ UNCHANGED <<rkind, rdelim, rcreatedAt, rdropped, rshutdown, rpanicked,
                   rchan, leftover, spending, rgot, rgotAtDrop, revents,
                   consumed, dvars, svars, wvars, pvars, qvars, fvars>>

\* UnixInput::read_async: AsyncReader::new spawns a thread of its own.
read_async(r) ==
    /\ rkind[r] = "none"
    /\ \A q \in Readers : q < r => rkind[q] # "none"
    /\ rkind' = [rkind EXCEPT ![r] = "async"]
    /\ rcreatedAt' = [rcreatedAt EXCEPT ![r] = Len(consumed)]
    /\ UNCHANGED <<rtty, rproduced, rdelim, rdropped, rshutdown, rpanicked,
                   rchan, leftover, spending, rgot, rgotAtDrop, revents,
                   consumed, dvars, svars, wvars, pvars, qvars, fvars>>

\* UnixInput::read_until_async(delimiter): AsyncReader::new spawns a thread
\* of its own.
read_until_async(r) ==
    /\ rkind[r] = "none"
    /\ \A q \in Readers : q < r => rkind[q] # "none"
    /\ rkind' = [rkind EXCEPT ![r] = "until"]
    /\ \E delimiter \in Delimiters : rdelim' = [rdelim EXCEPT ![r] = delimiter]
    /\ rcreatedAt' = [rcreatedAt EXCEPT ![r] = Len(consumed)]
    /\ UNCHANGED <<rtty, rproduced, rdropped, rshutdown, rpanicked, rchan,
                   leftover, spending, rgot, rgotAtDrop, revents, consumed,
                   dvars, svars, wvars, pvars, qvars, fvars>>

\* UnixInput::read_sync: a SyncReader holding the tty as its source.
read_sync(r) ==
    /\ rkind[r] = "none"
    /\ \A q \in Readers : q < r => rkind[q] # "none"
    /\ rkind' = [rkind EXCEPT ![r] = "sync"]
    /\ rcreatedAt' = [rcreatedAt EXCEPT ![r] = Len(consumed)]
    /\ UNCHANGED <<rtty, rproduced, rdelim, rdropped, rshutdown, rpanicked,
                   rchan, leftover, spending, rgot, rgotAtDrop, revents,
                   consumed, dvars, svars, wvars, pvars, qvars, fvars>>

\* The thread of an AsyncReader, one turn of `for byte in get_tty().bytes()`:
\* read a byte from the device, send it.  On a send error, on the delimiter
\* and on the cancellation token the closure returns, and the `loop` around
\* it in AsyncReader::new calls it again: the thread goes on reading.
AsyncThreadRead(r) ==
    /\ rkind[r] \in {"async", "until"}
    /\ rtty # <<>>
    /\ rtty' = Tail(rtty)
    /\ consumed' = Append(consumed, Head(rtty))
    /\ rgot' = [rgot EXCEPT ![r] = Append(@, Head(rtty))]
    /\ rchan' = [rchan EXCEPT ![r] = IF rdropped[r] THEN @ ELSE Append(@, Head(rtty))]
    /\ UNCHANGED <<rproduced, rkind, rdelim, rcreatedAt, rdropped, rshutdown,
                   rpanicked, leftover, spending, rgotAtDrop, revents, dvars,
                   svars, wvars, pvars, qvars, fvars>>

\* AsyncReader::next with a byte in the channel: try_iter, parse_event on
\* what the channel holds right now.  A panic of the caller unwinds and
\* drops the reader.
AsyncReaderNext(r) ==
    /\ rkind[r] \in {"async", "until"}
    /\ ~rdropped[r]
    /\ rchan[r] # <<>>
    /\ LET res == input_parse_event(Head(rchan[r]), Tail(rchan[r])) IN
       \E panic \in (IF res.kind = "Panic" THEN {TRUE}
                     ELSE IF res.ovf THEN {TRUE, FALSE} ELSE {FALSE}) :
         IF panic
         THEN /\ rpanicked' = [rpanicked EXCEPT ![r] = TRUE]
              /\ rdropped' = [rdropped EXCEPT ![r] = TRUE]
              /\ rshutdown' = [rshutdown EXCEPT ![r] = TRUE]
              /\ rgotAtDrop' = [rgotAtDrop EXCEPT ![r] = Len(rgot[r])]
              /\ rchan' = [rchan EXCEPT ![r] = <<>>]
              /\ UNCHANGED revents
         ELSE /\ rchan' = [rchan EXCEPT ![r] = SubSeq(@, res.used + 2, Len(@))]
              /\ revents' = [revents EXCEPT ![r] =
                               IF res.kind = "Ok" THEN Append(@, res.ev) ELSE @]
              /\ UNCHANGED <<rpanicked, rdropped, rshutdown, rgotAtDrop>>
    /\ UNCHANGED <<rtty, rproduced, rkind, rdelim, rcreatedAt, leftover,
                   spending, rgot, consumed, dvars, svars, wvars, pvars, qvars, fvars>>

\* SyncReader::next, first half, on the caller's thread: take the leftover
\* byte if there is one, else source.read of up to two bytes from the device.
\* One byte that is ESC is returned as Esc at once.
SyncReaderRead(r) ==
    /\ rkind[r] = "sync"
    /\ ~rdropped[r]
    /\ spending[r] = <<>>
    /\ IF leftover[r] # 0
       THEN /\ leftover' = [leftover EXCEPT ![r] = 0]
            /\ spending' = [spending EXCEPT ![r] = <<leftover[r]>>]
            /\ UNCHANGED <<rtty, rgot, consumed, revents>>
       ELSE /\ rtty # <<>>
            /\ LET n == IF Len(rtty) >= 2 THEN 2 ELSE 1
                   buf == SubSeq(rtty, 1, n)
               IN /\ rtty' = SubSeq(rtty, n + 1, Len(rtty))
                  /\ consumed' = consumed \o buf
                  /\ rgot' = [rgot EXCEPT ![r] = @ \o buf]
                  /\ IF buf = <<ESC>>
                     THEN /\ revents' = [revents EXCEPT ![r] = Append(@, Key("Esc"))]
                          /\ UNCHANGED spending
                     ELSE /\ spending' = [spending EXCEPT ![r] = buf]
                          /\ UNCHANGED revents
            /\ UNCHANGED leftover
    /\ UNCHANGED <<rproduced, rkind, rdelim, rcreatedAt, rdropped, rshutdown,
                   rpanicked, rchan, rgotAtDrop, dvars, svars, wvars, pvars, qvars, fvars>>

\* SyncReader::next, second half: parse_event on the bytes in hand, its
\* iterator going on to read the device byte by byte; the call returns once
\* the device has supplied what parse_event asks for.  After Ok the second
\* byte of the read, if parse_event did not take it, becomes the leftover.
SyncReaderParse(r) ==
    /\ rkind[r] = "sync"
    /\ ~rdropped[r]
    /\ spending[r] # <<>>
    /\ LET inhand == Len(spending[r]) - 1
           res == input_parse_event(spending[r][1], Tail(spending[r]) \o rtty)
           fromdev == IF res.used > inhand THEN res.used - inhand ELSE 0
       IN /\ ~res.starved
          /\ rtty' = SubSeq(rtty, fromdev + 1, Len(rtty))
          /\ consumed' = consumed \o SubSeq(rtty, 1, fromdev)
          /\ rgot' = [rgot EXCEPT ![r] = @ \o SubSeq(rtty, 1, fromdev)]
          /\ spending' = [spending EXCEPT ![r] = <<>>]
          /\ \E panic \in (IF res.kind = "Panic" THEN {TRUE}
                           ELSE IF res.ovf THEN {TRUE, FALSE} ELSE {FALSE}) :
               IF panic
               THEN /\ rpanicked' = [rpanicked EXCEPT ![r] = TRUE]
                    /\ rdropped' = [rdropped EXCEPT ![r] = TRUE]
                    /\ rgotAtDrop' = [rgotAtDrop EXCEPT ![r] = Len(rgot'[r])]
                    /\ UNCHANGED <<revents, leftover>>
               ELSE /\ revents' = [revents EXCEPT ![r] =
                                     IF res.kind = "Ok" THEN Append(@, res.ev) ELSE @]
                    /\ leftover' = [leftover EXCEPT ![r] =
                                      IF res.kind = "Ok" /\ inhand = 1 /\ res.used = 0
                                      THEN spending[r][2] ELSE 0]
                    /\ UNCHANGED <<rpanicked, rdropped, rgotAtDrop>>
    /\ UNCHANGED <<rproduced, rkind, rdelim, rcreatedAt, rshutdown, rchan,
                   dvars, svars, wvars, pvars, qvars, fvars>>

\* Drop of a reader; for an AsyncReader, Drop calls stop(), which stores the
\* shutdown flag, and the receiver of its channel goes away.
ReaderDrop(r) ==
    /\ rkind[r] # "none"
    /\ ~rdropped[r]
    /\ rdropped' = [rdropped EXCEPT ![r] = TRUE]
    /\ rshutdown' = [rshutdown EXCEPT ![r] = rkind[r] \in {"async", "until"}]
    /\ rgotAtDrop' = [rgotAtDrop EXCEPT ![r] = Len(rgot[r])]
    /\ rchan' = [rchan EXCEPT ![r] = <<>>]
    /\ UNCHANGED <<rtty, rproduced, rkind, rdelim, rcreatedAt, rpanicked,
                   leftover, spending, rgot, revents, consumed, dvars, svars, wvars, pvars, qvars, fvars>>

InitReaders == ReadersInit /\ DecodeIdle /\ SysIdle /\ WinIdle /\ PoolIdle /\ ResumeIdle /\ TtyIdle

NextReaders ==
    \/ ReaderTtyInput
    \/ \E r \in Readers :
         \/ read_async(r)
         \/ read_until_async(r)
         \/ read_sync(r)
         \/ AsyncThreadRead(r)
         \/ AsyncReaderNext(r)
         \/ SyncReaderRead(r)
         \/ SyncReaderParse(r)
         \/ ReaderDrop(r)

SpecReaders == InitReaders /\ [][NextReaders]_vars

(***************************************************************************)
(* Claims about the provider and its consumers, checked under Spec         *)
(***************************************************************************)
\* what a consumer has been handed so far: received, then still queued
Items(c) == observed[c] \o queue[c]
Evs(s) == [i \in 1..Len(s) |-> s[i].ev]

\* C1: every consumer that registered before the first publication and still
\* holds its receiver has been handed exactly the published sequence: the
\* same events, the same count, the same order, whatever it has drained so far.
C1_FanOut ==
    \A c \in Consumers :
        (handle[c] \in {"pending", "live"} /\ regAt[c] = 0)
            => Evs(Items(c)) = published

\* C1 witness: two consumers registered before two distinct events were
\* published; one has drained them all, the other none.
C1_Witness ==
    \E c, d \in Consumers :
        /\ c # d
        /\ handle[c] = "live" /\ handle[d] = "live"
        /\ regAt[c] = 0 /\ regAt[d] = 0
        /\ Len(published) >= 2 /\ published[1] # published[2]
        /\ Evs(observed[c]) = published
        /\ observed[d] = <<>>

\* C2: a consumer is never handed an event published before its registration
\* completed, and the events it is handed are in publication order.
C2_NoEarlierEvent ==
    \A c \in Consumers :
        LET s == Items(c) IN
        \A i \in 1..Len(s) :
            /\ s[i].n > regAt[c]
            /\ s[i].n <= Len(published)
            /\ s[i].ev = published[s[i].n]
            /\ (i > 1 => s[i - 1].n < s[i].n)

\* C2 witness: a consumer that registered after the first publication has
\* received a later event, while an earlier consumer has received more.
C2_Witness ==
    \E c, d \in Consumers :
        /\ regAt[c] >= 1
        /\ observed[c] # <<>>
        /\ regAt[d] = 0
        /\ Len(observed[d]) > Len(observed[c])

\* C3: a consumer whose receiver() has returned and that holds its receiver
\* is served: the provider has a reading thread and that thread is running,
\* so no event produced from now on is missed.
C3_ConsumerServed ==
    \A c \in Consumers :
        handle[c] = "live" => (reading_thread # 0 /\ Running(reading_thread))

\* C4: no reading thread exists before the first receiver() call, at most one
\* reading thread is alive at any time, and the provider's handle names a
\* thread that is alive.
C4_LazySingleWorker ==
    /\ Cardinality({t \in Threads : Alive(t)}) <= 1
    /\ ((\A c \in Consumers : cpc[c] = "idle") => \A t \in Threads : wpc[t] = "unborn")
    /\ (reading_thread # 0 => Alive(reading_thread))

\* C4 witness: the second receiver() call has returned and reused the thread
\* the first call spawned.
C4_Witness ==
    /\ \A c \in Consumers : cpc[c] = "done"
    /\ reading_thread = 1
    /\ Running(1)
    /\ \A t \in Threads : t # 1 => wpc[t] = "unborn"

\* C5: once every receiver has been dropped the reading thread makes at most
\* TeardownBound further select calls, whether or not input arrives.
C5_TeardownBounded == polls_after_drop <= TeardownBound

\* C6: a stop of the reading thread completes: no thread is stuck or has
\* panicked in the join of its own handle, and the provider lock is left
\* usable for a later receiver() call.
C6_StopCompletes ==
    /\ providerLock # "poisoned"
    /\ \A t \in Threads : wpc[t] \notin {"join_panicked", "join_hung"}

(***************************************************************************)
(* Claim about the readers, checked under SpecReaders                      *)
(***************************************************************************)
\* C7: when readers coexist from before the first input byte, every byte
\* taken from the device reaches each of them: none is consumed by one
\* reader and withheld from another.
C7_NoByteWithheld ==
    \A r \in Readers :
        (rkind[r] # "none" /\ ~rdropped[r] /\ rcreatedAt[r] = 0) => rgot[r] = consumed

(***************************************************************************)
(* Claims about the decoder and the reading loop, checked under SpecDecode *)
(***************************************************************************)

\* C8: for the one-byte buffer [ESC] parse_event returns Keyboard(Esc) when
\* input_available is false and Incomplete when it is true; for a buffer of
\* two or more bytes the result is the one the opposite hint gives; the
\* buffer [ESC, ESC] yields Keyboard(Esc).
C8_LoneEscape ==
    parsed # <<>> =>
      /\ (parsed = <<ESC>> =>
            result = IF input_available THEN Incomplete ELSE Event(Key("Esc")))
      /\ (Len(parsed) >= 2 => result = parse_event(parsed, ~input_available))
      /\ (parsed = <<ESC, ESC>> => result = Event(Key("Esc")))

\* C8 witness: a second ESC arrived after a lone ESC was held back as Incomplete
C8_Witness ==
    /\ loop_state = "decoded"
    /\ parsed = <<ESC, ESC>>
    /\ result = Event(Key("Esc"))

\* C9: after a byte is appended and decoded the buffer is empty if the result
\* was an event or Invalid and is the bytes received so far if it was
\* Incomplete; only a decoded event is handed to send, nothing after Invalid;
\* the byte after an Invalid result is decoded as a one-byte buffer.
C9_BufferDiscipline ==
    loop_state = "decoded" =>
      /\ (result.kind \in {"Event", "Invalid"} => buffer = <<>>)
      /\ (result.kind = "Incomplete" => buffer = parsed)
      /\ (result.kind = "Invalid" => sent = NoEvent)
      /\ (sent # NoEvent => result.kind = "Event" /\ sent = result.ev)
      /\ (prev_kind = "Invalid" => Len(parsed) = 1)

\* C9 witness: an event decoded from the first byte after an Invalid sequence
C9_Witness ==
    /\ loop_state = "decoded"
    /\ prev_kind = "Invalid"
    /\ result.kind = "Event"
    /\ sent = result.ev

\* C10: parse_event returns Incomplete, Invalid or an event for every buffer
\* and hint without panicking and without integer overflow or underflow.
C10_DecoderTotal ==
    /\ result.kind \in {"Incomplete", "Invalid", "Event"}
    /\ ~result.ovf
    /\ loop_state # "panicked"

(***************************************************************************)
(* More claims about the decoder and the reading loop, under SpecDecode    *)
(***************************************************************************)
\* The translation between the internal event channel and the public
\* InputEvent stream of a reader front-end: InternalEvent::Input(e) is handed
\* on as e, an internal cursor-position report is dropped (NoEvent).
public_event_unfiltered(ev) == ev

public_event(ev) == IF ev[1] = "CursorPosition" THEN NoEvent ELSE ev

RECURSIVE DecodeAll(_)
DecodeAll(bytes) ==
    IF bytes = <<>> THEN <<>>
    ELSE LET res == input_parse_event(Head(bytes), Tail(bytes))
             rest == SubSeq(bytes, res.used + 2, Len(bytes))
         IN IF res.kind = "Panic" THEN <<>>
            ELSE (IF res.kind = "Ok" THEN <<res.ev>> ELSE <<>>) \o DecodeAll(rest)

\* bytes is a run of complete sequences: parse_event accepts each of them and
\* never runs out of bytes in the middle of one
RECURSIVE WellFormed(_)
WellFormed(bytes) ==
    \/ bytes = <<>>
    \/ LET res == input_parse_event(Head(bytes), Tail(bytes))
       IN /\ res.kind = "Ok" /\ ~res.starved
          /\ WellFormed(SubSeq(bytes, res.used + 2, Len(bytes)))

\* r is an async reader, the only reader there has been, still held
SoleAsyncReader(r) ==
    /\ rkind[r] \in {"async", "until"}
    /\ ~rdropped[r]
    /\ \A q \in Readers : q # r => rkind[q] = "none"

\* C12: an async reader that has drained everything the terminal has sent
\* has been handed every event of that byte stream, also when the bytes of a
\* sequence arrived split across several next() calls.  Only streams of
\* complete sequences count, and streams holding an ESC are left out: whether
\* an ESC stands alone depends on timing.
C12_SplitSequenceDelivered ==
    \A r \in Readers :
        (/\ SoleAsyncReader(r) /\ rtty = <<>> /\ rchan[r] = <<>>
         /\ WellFormed(consumed)
         /\ \A i \in 1..Len(consumed) : consumed[i] # 27)
            => revents[r] = DecodeAll(consumed)

\* C13: once a reader created by read_until_async has been handed the event
\* of its delimiter no later pull yields an event, and once its thread has
\* read the delimiter byte it reads nothing further.
C13_SentinelStops ==
    \A r \in Readers :
        rkind[r] = "until" =>
          /\ \A i \in 1..Len(revents[r]) :
                 revents[r][i] = input_parse_event(rdelim[r], <<>>).ev
                     => i = Len(revents[r])
          /\ \A i \in 1..Len(rgot[r]) :
                 rgot[r][i] = rdelim[r] => i = Len(rgot[r])

\* C14: after an AsyncReader is dropped its thread reads the terminal no
\* more, the one read it may be blocked in excepted.
C14_ThreadStopsAfterDrop ==
    \A r \in Readers :
        (rkind[r] \in {"async", "until"} /\ rdropped[r])
            => Len(rgot[r]) <= rgotAtDrop[r] + 1

(***************************************************************************)
(* More claims about the provider, checked under Spec                      *)
(***************************************************************************)
\* the channel of consumer c is disconnected: its Sender has been dropped
Disconnected(c) == \A i \in 1..Len(senders) : senders[i] # c

\* no reading thread is at work and no receiver() call can spawn one: the
\* provider still names a thread, or its lock cannot be taken any more
WorkerStoppedForGood ==
    /\ \E t \in Threads : wpc[t] # "unborn"
    /\ \A t \in Threads : ~Running(t) /\ wpc[t] # "joining"
    /\ (reading_thread # 0 \/ providerLock # "free")

\* C15: when the reading thread has stopped for good while a consumer holds
\* its receiver, the consumer's channel is disconnected, so that a blocking
\* pull on it returns end-of-stream.
C15_StoppedWorkerDisconnects ==
    \A c \in Consumers :
        (handle[c] = "live" /\ WorkerStoppedForGood) => Disconnected(c)

\* C16: a reading thread whose select or read has failed stops its loop: it
\* never comes back to the select at the top of the loop.
C16_FatalIoStopsWorker ==
    \A t \in Threads : werr[t] => wpc[t] # "select"

(***************************************************************************)
(* More claims about the decoder, checked under SpecDecode                 *)
(***************************************************************************)
\* C18: a buffer that starts with ESC followed by a byte other than 'O', '['
\* and ESC never decodes to Char: an event decoded from it is Alt of the
\* scalar that follows the ESC.
C18_AltDecoding ==
    (/\ loop_state = "decoded" /\ Len(parsed) >= 2
     /\ parsed[1] = ESC /\ parsed[2] \notin {79, 91, ESC}
     /\ result.kind = "Event")
        => /\ result.ev[2] # "Char"
           /\ result.ev = KeyArg("Alt", FirstChar(Tail(parsed)))

\* C19: the buffer ESC 'O' is Incomplete; ESC 'O' b yields F(1 + b - 'P')
\* for b in 'P'..='S', b being the third byte of the buffer, and is Invalid
\* for every other b.
C19_SS3FunctionKeys ==
    (loop_state = "decoded" /\ Len(parsed) >= 2 /\ parsed[1] = ESC /\ parsed[2] = 79)
        => /\ (Len(parsed) = 2 => result = Incomplete)
           /\ (Len(parsed) >= 3 /\ parsed[3] \in 80..83
                   => result = Event(KeyArg("F", 1 + parsed[3] - 80)))
           /\ (Len(parsed) >= 3 /\ parsed[3] \notin 80..83 => result = Invalid)

\* C19 witness: ESC 'O' 'S' has been decoded to F4
C19_Witness ==
    /\ loop_state = "decoded"
    /\ parsed = <<ESC, 79, 83>>
    /\ sent = KeyArg("F", 4)

\* C20 as stated: CR and LF decode to Enter, TAB to Tab, 0x7F to Backspace,
\* 0x00 to Null, every byte in 0x01..=0x1A to Ctrl of the letter at that
\* offset from 'a', every byte in 0x1C..=0x1F to Ctrl of the character at
\* that offset from '4'.
C20_ControlKeys_AsStated ==
    (loop_state = "decoded" /\ Len(parsed) = 1) =>
        LET b == parsed[1] IN
          /\ (b \in {13, 10} => result = Event(Key("Enter")))
          /\ (b = 9 => result = Event(Key("Tab")))
          /\ (b = 127 => result = Event(Key("Backspace")))
          /\ (b = 0 => result = Event(Key("Null")))
          /\ (b \in 1..26 => result = Event(KeyArg("Ctrl", 97 + (b - 1))))
          /\ (b \in 28..31 => result = Event(KeyArg("Ctrl", 52 + (b - 28))))

\* C20 amended: as above, with the letters only for the bytes of 0x01..=0x1A
\* other than TAB, LF and CR, which decode to Tab and Enter.
C20_ControlKeys ==
    (loop_state = "decoded" /\ Len(parsed) = 1) =>
        LET b == parsed[1] IN
          /\ (b \in {13, 10} => result = Event(Key("Enter")))
          /\ (b = 9 => result = Event(Key("Tab")))
          /\ (b = 127 => result = Event(Key("Backspace")))
          /\ (b = 0 => result = Event(Key("Null")))
          /\ (b \in (1..26) \ {9, 10, 13}
                 => result = Event(KeyArg("Ctrl", 97 + (b - 1))))
          /\ (b \in 28..31 => result = Event(KeyArg("Ctrl", 52 + (b - 28))))

\* C20 witness: the byte 0x1A has been decoded to Ctrl('z')
C20_Witness ==
    /\ loop_state = "decoded"
    /\ parsed = <<26>>
    /\ sent = KeyArg("Ctrl", 122)

(***************************************************************************)
(* parse_event applied to whole position reports                           *)
(***************************************************************************)
\* one-based wire coordinates, 0 for a report no terminal sends
WireCoords == {0, 1, 2, 10, 80, 223, 65535}
\* the coordinates an X10 report can carry in one byte
X10Coords == {c \in WireCoords : c + 32 <= U8Max}
\* button codes
X10Cbs == {0, 1, 2, 3, 64, 65}
XtermCbs == {0, 1, 2, 3, 32, 64, 65}
RxvtCbs == {32, 33, 34, 35, 64, 96, 97}
\* the optional ';' before the final byte
Seps == {<<>>, <<59>>}

\* a number as the terminal writes it: decimal digits, no leading zero
RECURSIVE Decimal(_)
Decimal(n) ==
    IF n < 10 THEN <<48 + n>> ELSE Decimal(n \div 10) \o <<48 + (n % 10)>>

\* ESC [ M CB Cx Cy
X10Report(cb, x, y) == <<ESC, 91, 77, cb + 32, x + 32, y + 32>>

\* ESC [ < Cb ; Cx ; Cy (;) (M or m)
XtermReport(cb, x, y, sep, last) ==
    <<ESC, 91, 60>> \o Decimal(cb) \o <<59>> \o Decimal(x) \o <<59>>
        \o Decimal(y) \o sep \o <<last>>

\* ESC [ Cb ; Cx ; Cy ; M
RxvtReport(cb, x, y, sep) ==
    <<ESC, 91>> \o Decimal(cb) \o <<59>> \o Decimal(x) \o <<59>>
        \o Decimal(y) \o sep \o <<77>>

\* ESC [ Cy ; Cx R
CursorReport(y, x) ==
    <<ESC, 91>> \o Decimal(y) \o <<59>> \o Decimal(x) \o <<82>>

\* numbers of a special key code: the keys, the gaps, and numbers around
\* the end of the u8 range
KeyNumbers == (0..30) \cup {255, 256, 300}
\* a second value of a special key code, as digits: 2, 5, 256
SecondFields == {<<50>>, <<53>>, <<50, 53, 54>>}

\* ESC [ n ~
SpecialKeyReport(n) == <<ESC, 91>> \o Decimal(n) \o <<126>>

\* ESC [ n ; m ~
SpecialKeyReport2(n, second) ==
    <<ESC, 91>> \o Decimal(n) \o <<59>> \o second \o <<126>>

\* what precedes the last two bytes of a modifier-prefixed arrow: nothing,
\* "1;", "1"
ModPrefixes == {<<>>, <<49, 59>>, <<49>>}
\* the last two bytes: '1' '2' '5' ';' and 'A'..'E', 'H', 'P'
ModBytes == {49, 50, 53, 59}
ModKeys == (65..69) \cup {72, 80}

\* ESC [ (1 ;) modifier key
ModifierReport(prefix, modifier, key) ==
    <<ESC, 91>> \o prefix \o <<modifier, key>>

\* the reports above that are numbered escape codes: a digit follows ESC [
ModifierReports ==
    {r \in {ModifierReport(p, m, k) : p \in ModPrefixes, m \in ModBytes, k \in ModKeys} :
        r[3] \in 48..57}

\* button codes that stand for no button, the last one above the u16 range
XtermOtherCbs == {4, 33, U16Max + 1}
RxvtOtherCbs == {0, 36, U16Max + 1}

\* xterm reports with a field missing or not a number:
\* ESC [ < M, ESC [ < 0 ; 20 M, ESC [ < 0 ; ; 10 M, ESC [ < A ; 20 ; 10 M
XtermMalformed ==
    {<<ESC, 91, 60, 77>>,
     <<ESC, 91, 60, 48, 59, 50, 48, 77>>,
     <<ESC, 91, 60, 48, 59, 59, 49, 48, 77>>,
     <<ESC, 91, 60, 65, 59, 50, 48, 59, 49, 48, 77>>}

MouseReports ==
    {X10Report(cb, x, y) : cb \in X10Cbs, x \in X10Coords, y \in X10Coords}
    \cup UNION {{XtermReport(cb, x, y, sep, last) :
                    cb \in XtermCbs \cup XtermOtherCbs,
                    x \in WireCoords, y \in WireCoords} :
                 sep \in Seps, last \in {77, 109}}
    \cup UNION {{RxvtReport(cb, x, y, sep) :
                    cb \in RxvtCbs \cup RxvtOtherCbs,
                    x \in WireCoords, y \in WireCoords} :
                 sep \in Seps}

\* the buffer while the report r arrives, from the byte after ESC [ on
ReportPrefixes(r) == {SubSeq(r, 1, n) : n \in 3..Len(r)}

\* scalar values: ASCII, and the ends of the two-, three- and four-byte
\* ranges, 0xF1, 0x2061 and 0x1033C of the tests among them
Scalars == {32, 97, 126, 128, 241, 2047, 2048, 8289, 55295, 57344, 65535,
            65536, 66364, 1114111}

\* the UTF-8 encoding of a scalar value
Utf8Encode(c) ==
    IF c < 128 THEN <<c>>
    ELSE IF c < 2048 THEN <<192 + (c \div 64), 128 + (c % 64)>>
    ELSE IF c < 65536
      THEN <<224 + (c \div 4096), 128 + ((c \div 64) % 64), 128 + (c % 64)>>
    ELSE <<240 + (c \div 262144), 128 + ((c \div 4096) % 64),
           128 + ((c \div 64) % 64), 128 + (c % 64)>>

\* byte strings that are no UTF-8: a continuation byte or 0xF8 as lead, a
\* byte after the lead that is no continuation byte, and full-length
\* sequences that are overlong, a surrogate or above 0x10FFFF
Utf8Malformed ==
    {<<160>>, <<248>>, <<195, 40>>, <<226, 40>>, <<226, 130, 40>>,
     <<240, 40>>, <<240, 144, 40>>, <<240, 144, 140, 40>>,
     <<192, 128>>, <<224, 128, 128>>, <<237, 160, 128>>,
     <<244, 144, 128, 128>>, <<245, 128, 128, 128>>}

\* beginnings of sequences, of well-formed and of malformed ones
Utf8Pending ==
    UNION {{SubSeq(Utf8Encode(c), 1, n) : n \in 1..(Len(Utf8Encode(c)) - 1)} :
              c \in Scalars}
    \cup {<<192>>, <<224, 128>>, <<237, 160>>, <<244, 144, 128>>, <<245, 128>>}

Reports ==
    UNION {ReportPrefixes(r) : r \in MouseReports}
    \cup {Utf8Encode(c) : c \in Scalars}
    \cup Utf8Malformed
    \cup Utf8Pending
    \cup XtermMalformed
    \cup {SpecialKeyReport(n) : n \in KeyNumbers}
    \cup {SpecialKeyReport2(n, f) : n \in KeyNumbers, f \in SecondFields}
    \cup ModifierReports
    \cup {CursorReport(y, x) : y \in WireCoords, x \in WireCoords}

\* the buffer holds a whole report, the loop is about to call parse_event
ReportInit ==
    /\ buffer \in Reports
    /\ input_available = FALSE
    /\ parsed = <<>>
    /\ result = Incomplete
    /\ sent = NoEvent
    /\ prev_kind = "None"
    /\ loop_state = "select"
    /\ calls = <<>>
    /\ SysIdle
    /\ ReadersIdle
    /\ WinIdle
    /\ PoolIdle
    /\ ResumeIdle
    /\ TtyIdle

\* parse_event on the buffer and the match on its result; an arithmetic
\* overflow panics in a build with overflow checks and wraps otherwise
ParseReport ==
    /\ loop_state = "select"
    /\ buffer # <<>>
    /\ \E hint \in BOOLEAN :
         LET r == parse_event(buffer, hint)
         IN /\ parsed' = buffer
            /\ input_available' = hint
            /\ result' = r
            /\ \/ /\ buffer' = BufferAfter(buffer, r)
                  /\ sent' = ToSend(r)
                  /\ loop_state' = "decoded"
               \/ /\ r.ovf
                  /\ buffer' = buffer
                  /\ sent' = NoEvent
                  /\ loop_state' = "panicked"
    /\ UNCHANGED <<prev_kind, calls, svars, rvars, wvars, pvars, qvars, fvars>>

ReportNext == ParseReport

SpecReport == ReportInit /\ [][ReportNext]_vars

\* C17: for the X10, xterm and rxvt mouse reports and for the cursor
\* position report every coordinate of the decoded event is the one-based
\* wire coordinate minus 1, for all wire coordinates >= 1.
C17_ZeroBasedCoordinates ==
    loop_state = "decoded" =>
      \A x \in WireCoords \ {0}, y \in WireCoords \ {0} :
        /\ \A cb \in X10Cbs :
             (x \in X10Coords /\ y \in X10Coords /\ parsed = X10Report(cb, x, y))
               => /\ result.kind = "Event" /\ result.ev[1] = "Mouse"
                  /\ result.ev[4] = x - 1 /\ result.ev[5] = y - 1
        /\ \A cb \in XtermCbs, sep \in Seps, last \in {77, 109} :
             parsed = XtermReport(cb, x, y, sep, last)
               => /\ result.kind = "Event" /\ result.ev[1] = "Mouse"
                  /\ result.ev[4] = x - 1 /\ result.ev[5] = y - 1
        /\ \A cb \in RxvtCbs, sep \in Seps :
             parsed = RxvtReport(cb, x, y, sep)
               => /\ result.kind = "Event" /\ result.ev[1] = "Mouse"
                  /\ result.ev[4] = x - 1 /\ result.ev[5] = y - 1
        /\ parsed = CursorReport(y, x)
               => result = Event(CursorPosition(x - 1, y - 1))

\* C17 witness: the xterm report ESC [ < 0 ; 80 ; 10 M has been decoded to a
\* press of the left button at (79, 9)
C17_Witness ==
    /\ loop_state = "decoded"
    /\ parsed = XtermReport(0, 80, 10, <<>>, 77)
    /\ sent = MousePress("Left", 79, 9)

\* the key the special key code n stands for
SpecialKeyOf(n) ==
    IF n \in {1, 7} THEN Key("Home")
    ELSE IF n = 2 THEN Key("Insert")
    ELSE IF n = 3 THEN Key("Delete")
    ELSE IF n \in {4, 8} THEN Key("End")
    ELSE IF n = 5 THEN Key("PageUp")
    ELSE IF n = 6 THEN Key("PageDown")
    ELSE IF n \in 11..15 THEN KeyArg("F", n - 10)
    ELSE IF n \in 17..21 THEN KeyArg("F", n - 11)
    ELSE IF n \in 23..24 THEN KeyArg("F", n - 12)
    ELSE Unknown

\* C21: ESC '[' n '~' with a single number n yields the key of n, Unknown
\* for every n that stands for no key; with a second semicolon-separated
\* value the sequence yields Unknown.
C21_SpecialKeyCodes ==
    loop_state = "decoded" =>
      \A n \in KeyNumbers :
        /\ parsed = SpecialKeyReport(n) => result = Event(SpecialKeyOf(n))
        /\ \A f \in SecondFields :
             parsed = SpecialKeyReport2(n, f) => result = Event(Unknown)

\* the arrow a (modifier, key) pair of bytes stands for
ModifierKeyOf(modifier, key) ==
    LET arrow == IF key = 65 THEN "Up" ELSE IF key = 66 THEN "Down"
                 ELSE IF key = 67 THEN "Right" ELSE "Left"
    IN IF key \in 65..68 /\ modifier = 53 THEN Key("Ctrl" \o arrow)
       ELSE IF key \in 65..68 /\ modifier = 50 THEN Key("Shift" \o arrow)
       ELSE Unknown

\* C22: a numbered CSI sequence whose terminator is not 'M', '~' or 'R' is
\* decoded from its last two bytes alone: ('5', 'A'..'D') is CtrlUp, CtrlDown,
\* CtrlRight, CtrlLeft, ('2', 'A'..'D') is ShiftUp, ShiftDown, ShiftRight,
\* ShiftLeft, every other pair is Unknown, whatever precedes the pair.
C22_ModifierArrows ==
    loop_state = "decoded" =>
      \A p \in ModPrefixes, m \in ModBytes, k \in ModKeys :
        (parsed = ModifierReport(p, m, k) /\ parsed \in ModifierReports)
            => result = Event(ModifierKeyOf(m, k))

\* C22 witness: ESC [ 1 ; 5 D has been decoded to CtrlLeft
C22_Witness ==
    /\ loop_state = "decoded"
    /\ parsed = ModifierReport(<<49, 59>>, 53, 68)
    /\ sent = Key("CtrlLeft")

\* the event the X10 button byte Cb stands for: cb = Cb - 32, its low two
\* bits and its bit 6
X10EventOf(Cb, cx, cy) ==
    LET cb == Cb - 32
        wheel == (cb \div 64) % 2 = 1
    IN IF cb % 4 = 0
         THEN MousePress(IF wheel THEN "WheelUp" ELSE "Left", cx, cy)
       ELSE IF cb % 4 = 1
         THEN MousePress(IF wheel THEN "WheelDown" ELSE "Middle", cx, cy)
       ELSE IF cb % 4 = 2 THEN MousePress("Right", cx, cy)
       ELSE MouseRelease(cx, cy)

\* C23: a buffer starting ESC '[' 'M' is Incomplete while it has fewer than
\* 6 bytes; with 6 bytes it yields the event of its button byte with the
\* coordinates (Cx - 32 - 1, Cy - 32 - 1).
C23_X10Mouse ==
    \A cb \in X10Cbs, x \in X10Coords, y \in X10Coords :
        LET r == X10Report(cb, x, y) IN
          /\ \A n \in 3..5 :
               parsed = SubSeq(r, 1, n)
                   => loop_state = "decoded" /\ result = Incomplete
          /\ parsed = r
               => /\ loop_state = "decoded"
                  /\ result = Event(X10EventOf(r[4], r[5] - 32 - 1, r[6] - 32 - 1))

\* the event the xterm button code cb stands for, by the final byte
XtermEventOf(cb, last, cx, cy) ==
    IF cb \in {0, 1, 2, 64, 65}
      THEN IF last = 109 THEN MouseRelease(cx, cy)
           ELSE MousePress(IF cb = 0 THEN "Left" ELSE IF cb = 1 THEN "Middle"
                           ELSE IF cb = 2 THEN "Right"
                           ELSE IF cb = 64 THEN "WheelUp" ELSE "WheelDown",
                           cx, cy)
    ELSE IF cb = 32 THEN MouseHold(cx, cy)
    ELSE IF cb = 3 THEN MouseRelease(cx, cy)
    ELSE Unknown

\* C24: a buffer starting ESC '[' '<' is Incomplete until its last byte is
\* 'M' or 'm'; then the fields Cb;Cx;Cy, with or without a ';' before the
\* final byte, yield the event of Cb and the final byte, Unknown for a Cb
\* that stands for no button; a missing or non-numeric field is Invalid.
C24_XtermMouse ==
    /\ \A cb \in XtermCbs \cup XtermOtherCbs, x \in WireCoords, y \in WireCoords,
          sep \in Seps, last \in {77, 109} :
         LET r == XtermReport(cb, x, y, sep, last) IN
           /\ \A n \in 3..(Len(r) - 1) :
                parsed = SubSeq(r, 1, n)
                    => loop_state = "decoded" /\ result = Incomplete
           /\ parsed = r
                => /\ loop_state = "decoded"
                   /\ result.kind = "Event"
                   /\ result.ev = XtermEventOf(cb, last, result.ev[4], result.ev[5])
    /\ parsed \in XtermMalformed
         => loop_state = "decoded" /\ result = Invalid

\* the event the rxvt button code cb stands for
RxvtEventOf(cb, cx, cy) ==
    IF cb = 32 THEN MousePress("Left", cx, cy)
    ELSE IF cb = 33 THEN MousePress("Middle", cx, cy)
    ELSE IF cb = 34 THEN MousePress("Right", cx, cy)
    ELSE IF cb = 35 THEN MouseRelease(cx, cy)
    ELSE IF cb = 64 THEN MouseHold(cx, cy)
    ELSE IF cb \in {96, 97} THEN MousePress("WheelUp", cx, cy)
    ELSE MouseUnknown

\* C25: a numbered CSI sequence with the fields Cb;Cx;Cy is Incomplete until
\* a byte in 64..=126 ends the buffer; ended by 'M' it yields the event of
\* Cb, Mouse(Unknown) for a Cb that stands for no button.
C25_RxvtMouse ==
    \A cb \in RxvtCbs \cup RxvtOtherCbs, x \in WireCoords, y \in WireCoords,
       sep \in Seps :
      LET r == RxvtReport(cb, x, y, sep) IN
        /\ \A n \in 3..(Len(r) - 1) :
             parsed = SubSeq(r, 1, n)
                 => loop_state = "decoded" /\ result = Incomplete
        /\ parsed = r
             => /\ loop_state = "decoded"
                /\ result.kind = "Event"
                /\ result.ev = RxvtEventOf(cb, result.ev[4], result.ev[5])

\* C26: ESC '[' row ';' col 'R' with row, col >= 1 yields the internal event
\* CursorPosition(col - 1, row - 1), the column first, and neither a
\* Keyboard nor a Mouse event.
C26_CursorPositionReport ==
    loop_state = "decoded" =>
      \A row \in WireCoords \ {0}, col \in WireCoords \ {0} :
        parsed = CursorReport(row, col)
            => /\ result.kind = "Event"
               /\ result.ev[1] \notin {"Keyboard", "Mouse"}
               /\ sent = CursorPosition(col - 1, row - 1)

\* C26 witness: ESC [ 10 ; 80 R has been decoded to CursorPosition(79, 9)
C26_Witness ==
    /\ loop_state = "decoded"
    /\ parsed = CursorReport(10, 80)
    /\ result = Event(CursorPosition(79, 9))

\* C27: an ASCII byte decodes to Char; the beginning of a multi-byte
\* sequence whose bytes after the lead are continuation bytes is Incomplete
\* while it is shorter than the lead announces; a complete valid encoding
\* decodes to Char of its scalar, so that decoding the encoding of a scalar
\* gives the scalar back; a malformed lead byte, a non-continuation byte and
\* a full-length sequence that is not valid UTF-8 are Invalid.
C27_Utf8Decoding ==
    loop_state = "decoded" =>
      /\ \A c \in Scalars :
           parsed = Utf8Encode(c) => result = Event(KeyArg("Char", c))
      /\ parsed \in Utf8Pending => result = Incomplete
      /\ parsed \in Utf8Malformed => result = Invalid

\* C27 witness: the four bytes F0 90 8C BC have been decoded to Char(U+1033C)
C27_Witness ==
    /\ loop_state = "decoded"
    /\ parsed = <<240, 144, 140, 188>>
    /\ parsed = Utf8Encode(66364)
    /\ sent = KeyArg("Char", 66364)

(***************************************************************************)
(* parse_event called again and again, each call recorded                  *)
(***************************************************************************)
\* number of calls made in a run
MaxCalls == 3

\* buffers handed to parse_event: ESC, 'a', TAB, 0xC3, 0xC3 '(', 0xC3 0xB1,
\* ESC [, ESC [ A, ESC O P, ESC [ 3 ~, ESC [ M with zero and with non-zero
\* coordinates, ESC [ 1 ; 1 R
CallBuffers ==
    {<<ESC>>, <<97>>, <<9>>, <<195>>, <<195, 40>>, <<195, 177>>,
     <<ESC, 91>>, <<ESC, 91, 65>>, <<ESC, 79, 80>>, <<ESC, 91, 51, 126>>,
     <<ESC, 91, 77, 32, 32, 32>>, <<ESC, 91, 77, 32, 33, 33>>,
     <<ESC, 91, 49, 59, 49, 82>>}

\* `parse_event(&buffer, input_available)` as the loop calls it
decode_call_sticky(buf, hint) ==
    IF prev_kind = "Invalid" THEN Invalid ELSE parse_event(buf, hint)

decode_call(buf, hint) == parse_event(buf, hint)

CallsInit ==
    /\ buffer = <<>>
    /\ input_available = FALSE
    /\ parsed = <<>>
    /\ result = Incomplete
    /\ sent = NoEvent
    /\ prev_kind = "None"
    /\ loop_state = "select"
    /\ calls = <<>>
    /\ SysIdle
    /\ ReadersIdle
    /\ WinIdle
    /\ PoolIdle
    /\ ResumeIdle
    /\ TtyIdle

\* One call of parse_event, whatever the buffer holds and whatever the hint
\* is, and the match on its result.
CallParse ==
    /\ loop_state = "select"
    /\ Len(calls) < MaxCalls
    /\ \E buf \in CallBuffers, hint \in BOOLEAN :
         LET r == decode_call(buf, hint)
             call == [buffer |-> buf, input_available |-> hint, result |-> r]
         IN /\ calls' = Append(calls, call)
            /\ parsed' = buf
            /\ input_available' = hint
            /\ result' = r
            /\ \/ /\ buffer' = BufferAfter(buf, r)
                  /\ sent' = ToSend(r)
                  /\ loop_state' = "decoded"
               \/ /\ r.ovf
                  /\ buffer' = buf
                  /\ sent' = NoEvent
                  /\ loop_state' = "panicked"
    /\ UNCHANGED <<prev_kind, svars, rvars, wvars, pvars, qvars, fvars>>

\* End of the iteration; the next one may find any buffer.
CallDone ==
    /\ loop_state = "decoded"
    /\ loop_state' = "select"
    /\ input_available' = FALSE
    /\ parsed' = <<>>
    /\ result' = Incomplete
    /\ sent' = NoEvent
    /\ prev_kind' = result.kind
    /\ UNCHANGED <<buffer, calls, svars, rvars, wvars, pvars, qvars, fvars>>

CallsNext == CallParse \/ CallDone

SpecCalls == CallsInit /\ [][CallsNext]_vars

VirtualKeys ==
    {VK_BACK, 9, VK_RETURN, VK_SHIFT, VK_CONTROL, VK_MENU, VK_ESCAPE, 32}
    \cup (VK_PRIOR..VK_DOWN) \cup {VK_INSERT, VK_DELETE}
    \cup {49, 65, 73, 77} \cup ((VK_F1 - 1)..(VK_F12 + 1)) \cup {321}

\* UTF-16 units of u_char: every control character, and values around the
\* `character_raw < 255` test
UnicodeChars == (0..32) \cup {97, 127, 233, 254, 255, 256, 321}

ControlKeyStates == SUBSET ControlKeyBits

KeyEventRecords ==
    [key_down : BOOLEAN, virtual_key_code : VirtualKeys, u_char : UnicodeChars,
     control_key_state : ControlKeyStates]

MousePositions == {0, 1, 79, 32767}

ButtonStates ==
    {"Release", "FromLeft1stButtonPressed", "RightmostButtonPressed",
     "FromLeft2ndButtonPressed", "FromLeft3rdButtonPressed",
     "FromLeft4thButtonPressed", "Unknown", "Negative"}

EventFlags ==
    {"PressOrRelease", "MouseMoved", "DoubleClick", "MouseWheeled", "MouseHwheeled"}

MouseEventRecords ==
    [mouse_position : [x : MousePositions, y : MousePositions],
     button_state : ButtonStates, event_flags : EventFlags]

IgnoredEventTypes == {"WindowBufferSizeEvent", "FocusEvent", "MenuEvent"}

\* read_single_event returned Err: the handle or the read failed
ReadErr == <<"Err", "", "", 0, 0>>

WinIsIdle == input = NoInput /\ returned = NoEvent

WinInit == WinIdle /\ DecodeIdle /\ SysIdle /\ ReadersIdle /\ PoolIdle /\ ResumeIdle /\ TtyIdle

ReadKeyEvent ==
    /\ WinIsIdle
    /\ \E key_event \in KeyEventRecords :
         LET input_record == [event_type |-> "KeyEvent", event |-> key_event] IN
         /\ input' = input_record
         /\ returned' = read_single_event(input_record)
    /\ UNCHANGED <<dvars, svars, rvars, pvars, qvars, fvars>>

ReadMouseEvent ==
    /\ WinIsIdle
    /\ \E mouse_event \in MouseEventRecords :
         LET input_record == [event_type |-> "MouseEvent", event |-> mouse_event] IN
         /\ input' = input_record
         /\ returned' = read_single_event(input_record)
    /\ UNCHANGED <<dvars, svars, rvars, pvars, qvars, fvars>>

ReadIgnoredEvent ==
    /\ WinIsIdle
    /\ \E t \in IgnoredEventTypes :
         LET input_record == [event_type |-> t, event |-> [none |-> TRUE]] IN
         /\ input' = input_record
         /\ returned' = read_single_event(input_record)
    /\ UNCHANGED <<dvars, svars, rvars, pvars, qvars, fvars>>

\* `Handle::current_in_handle()?` or `read_single_input_event()?` fails
ReadFails ==
    /\ WinIsIdle
    /\ input' = NoInput
    /\ returned' = ReadErr
    /\ UNCHANGED <<dvars, svars, rvars, pvars, qvars, fvars>>

\* WinApiEventSource::read_event hands the result to its caller
read_event ==
    /\ ~WinIsIdle
    /\ input' = NoInput
    /\ returned' = NoEvent
    /\ UNCHANGED <<dvars, svars, rvars, pvars, qvars, fvars>>

WinNext == ReadKeyEvent \/ ReadMouseEvent \/ ReadIgnoredEvent \/ ReadFails \/ read_event

SpecWinapi == WinInit /\ [][WinNext]_vars

CtrlHeld(state) == "LEFT_CTRL_PRESSED" \in state \/ "RIGHT_CTRL_PRESSED" \in state

AltHeld(state) == "LEFT_ALT_PRESSED" \in state \/ "RIGHT_ALT_PRESSED" \in state

ShiftHeld(state) == "SHIFT_PRESSED" \in state

\* the plain arrow of an arrow virtual key
ArrowOf(vk) ==
    IF vk = VK_LEFT THEN "Left" ELSE IF vk = VK_UP THEN "Up"
    ELSE IF vk = VK_RIGHT THEN "Right" ELSE "Down"

\* C29: a key-up record, and a record of Shift, Control or Menu alone, produce
\* no event; window-buffer-size, focus and menu records produce no event; a
\* key-down record of VK_F1..VK_F12 produces F(1..12); a key-down record of an
\* arrow key produces the Ctrl variant if Ctrl is held, else the Shift variant
\* if Shift is held, else the plain arrow.
C29_WindowsKeyRecords ==
    /\ input.event_type \in IgnoredEventTypes => returned = NoEvent
    /\ input.event_type = "KeyEvent" =>
         LET k == input.event
             vk == k.virtual_key_code
         IN
         /\ ~k.key_down => returned = NoEvent
         /\ vk \in {VK_SHIFT, VK_CONTROL, VK_MENU} => returned = NoEvent
         /\ (k.key_down /\ vk \in VK_F1..VK_F12) =>
              returned = <<"Keyboard", "F", "", vk - VK_F1 + 1, 0>>
         /\ (k.key_down /\ vk \in {VK_LEFT, VK_UP, VK_RIGHT, VK_DOWN}) =>
              returned =
                <<"Keyboard",
                  (IF CtrlHeld(k.control_key_state) THEN "Ctrl"
                   ELSE IF ShiftHeld(k.control_key_state) THEN "Shift"
                   ELSE "") \o ArrowOf(vk),
                  "", 0, 0>>

\* a key-down record of the Up arrow with Ctrl and Shift both held came back as
\* CtrlUp
C29_Witness ==
    /\ input.event_type = "KeyEvent"
    /\ input.event.key_down
    /\ input.event.virtual_key_code = VK_UP
    /\ input.event.control_key_state = {"LEFT_CTRL_PRESSED", "SHIFT_PRESSED"}
    /\ returned = Key("CtrlUp")

\* the virtual keys parse_key_event_record maps by themselves
SpeciallyMapped ==
    {VK_SHIFT, VK_CONTROL, VK_MENU, VK_BACK, VK_ESCAPE, VK_RETURN}
    \cup (VK_F1..VK_F12) \cup (VK_PRIOR..VK_DOWN) \cup {VK_DELETE, VK_INSERT}

\* a key-down record with Ctrl held, no Alt, a virtual key that is not
\* specially mapped, and a character in 0x01..=0x1A or 0x1C..=0x1F
CtrlCharacterRecord ==
    /\ input.event_type = "KeyEvent"
    /\ input.event.key_down
    /\ CtrlHeld(input.event.control_key_state)
    /\ ~AltHeld(input.event.control_key_state)
    /\ input.event.virtual_key_code \notin SpeciallyMapped
    /\ input.event.u_char \in (1..26) \cup (28..31)

\* C30: for such a record the Windows mapping yields the key event the POSIX
\* decoder yields for the one-byte buffer of the character.
C30_CtrlEquivalence ==
    CtrlCharacterRecord =>
      \A hint \in BOOLEAN :
        parse_event(<<input.event.u_char>>, hint) = Event(returned)

\* the button of a press-or-release record, "" for any other button state
PressedButton(button_state) ==
    IF button_state = "FromLeft1stButtonPressed" THEN "Left"
    ELSE IF button_state = "RightmostButtonPressed" THEN "Right"
    ELSE IF button_state = "FromLeft2ndButtonPressed" THEN "Middle"
    ELSE ""

\* C31: a press-or-release record yields Release when no button is down,
\* Press(Left/Right/Middle) for the first-from-left, rightmost and
\* second-from-left button and None for any other button state; a mouse-moved
\* record yields Hold exactly when a button is held; a vertical wheel record
\* yields Press(WheelDown) when the rotation is negative and Press(WheelUp)
\* otherwise; double-click and horizontal-wheel records yield None.
C31_WindowsMouseRecords ==
    input.event_type = "MouseEvent" =>
      LET m == input.event
          x == m.mouse_position.x
          y == m.mouse_position.y
      IN
      /\ m.event_flags = "PressOrRelease" =>
           IF m.button_state = "Release"
             THEN returned = <<"Mouse", "Release", "", x, y>>
           ELSE IF PressedButton(m.button_state) # ""
             THEN returned = <<"Mouse", "Press", PressedButton(m.button_state), x, y>>
           ELSE returned = NoEvent
      /\ m.event_flags = "MouseMoved" =>
           /\ (returned = <<"Mouse", "Hold", "", x, y>>) = (m.button_state # "Release")
           /\ m.button_state = "Release" => returned = NoEvent
      /\ m.event_flags = "MouseWheeled" =>
           returned = <<"Mouse", "Press",
                        IF m.button_state = "Negative" THEN "WheelDown" ELSE "WheelUp",
                        x, y>>
      /\ m.event_flags \in {"DoubleClick", "MouseHwheeled"} => returned = NoEvent

\* a mouse-moved record with no button down came back as None
C31_Witness ==
    /\ input.event_type = "MouseEvent"
    /\ input.event.event_flags = "MouseMoved"
    /\ input.event.button_state = "Release"
    /\ input.event.mouse_position = [x |-> 79, y |-> 1]
    /\ returned = NoEvent

(***************************************************************************)
(* The streams of the rewrite: src/rewrite/spmc.rs, input_stream.rs        *)
(***************************************************************************)
\* events written to one channel
MaxWrites == 3
\* accessor calls on the streams of one channel
MaxReads == 2

\* the events of test_read_all_events and of the input_stream tests
StreamEvents == {Key("Tab"), MouseUnknown, Unknown}

\* shrev: a new reader stands behind everything written so far
register_reader_from_start(ch) == 0

register_reader(ch) == Len(ch)

\* shrev: EventChannel::read gives the events the reader has not passed
channel_read(ch, id) == SubSeq(ch, id + 1, Len(ch))

\* the closures given to drain_input_events
Matches(e, name) ==
    IF name = "key_events" THEN e[1] = "Keyboard"
    ELSE IF name = "mouse_events" THEN e[1] = "Mouse"
    ELSE TRUE

RemoveAt(cache, i) == SubSeq(cache, 1, i - 1) \o SubSeq(cache, i + 1, Len(cache))

\* the while loop of drain_input_events from index i on
RECURSIVE drain_loop(_, _, _, _)
drain_loop(cache, i, out, name) ==
    IF i > Len(cache) THEN [cache |-> cache, drained |-> out]
    ELSE IF Matches(cache[i], name)
      THEN drain_loop(RemoveAt(cache, i), i, Append(out, cache[i]), name)
      ELSE drain_loop(cache, i + 1, out, name)

drain_input_events_keep(cache, name) ==
    [cache |-> cache, drained |-> drain_loop(cache, 1, <<>>, name).drained]

drain_input_events(cache, name) == drain_loop(cache, 1, <<>>, name)

\* InputEventConsumer::new: register a reader on the channel
new_consumer(s) ==
    /\ read_id[s] = -1
    /\ read_id' = [read_id EXCEPT ![s] = register_reader(event_channel)]
    /\ registered_at' = [registered_at EXCEPT ![s] = Len(event_channel)]
    /\ read_upto' = [read_upto EXCEPT ![s] = Len(event_channel)]
    /\ UNCHANGED <<event_channel, input_cache, read_log, read_count, accessor,
                   drained>>

\* ProducerLock::produce_input_event: single_write on the channel
produce_input_event(e) ==
    /\ Len(event_channel) < MaxWrites
    /\ event_channel' = Append(event_channel, e)
    /\ UNCHANGED <<read_id, input_cache, registered_at, read_upto, read_log,
                   read_count, accessor, drained>>

\* accessor calls made so far
ReadsMade == read_count["stream1"] + read_count["stream2"]

\* key_events, mouse_events, events: update_local_cache (read_all, extend),
\* then drain_input_events with the accessor's closure
stream_accessor(s, name) ==
    /\ read_id[s] >= 0
    /\ ReadsMade < MaxReads
    /\ LET read_all == channel_read(event_channel, read_id[s])
           d == drain_input_events(input_cache[s] \o read_all, name)
       IN /\ read_id' = [read_id EXCEPT ![s] = Len(event_channel)]
          /\ read_log' = [read_log EXCEPT ![s] = @ \o read_all]
          /\ input_cache' = [input_cache EXCEPT ![s] = d.cache]
          /\ drained' = [drained EXCEPT ![s] = d.drained]
    /\ read_upto' = [read_upto EXCEPT ![s] = Len(event_channel)]
    /\ read_count' = [read_count EXCEPT ![s] = @ + 1]
    /\ accessor' = [accessor EXCEPT ![s] = name]
    /\ UNCHANGED <<event_channel, registered_at>>

PoolThreadsIdle == UNCHANGED <<pool_lock, poisoned, tpc, polled>>

NewConsumer ==
    /\ \E s \in Streams : new_consumer(s)
    /\ PoolThreadsIdle
    /\ UNCHANGED <<dvars, svars, rvars, wvars, qvars, fvars>>

SingleWrite ==
    /\ \E e \in StreamEvents : produce_input_event(e)
    /\ PoolThreadsIdle
    /\ UNCHANGED <<dvars, svars, rvars, wvars, qvars, fvars>>

key_events ==
    /\ \E s \in Streams : stream_accessor(s, "key_events")
    /\ PoolThreadsIdle
    /\ UNCHANGED <<dvars, svars, rvars, wvars, qvars, fvars>>

mouse_events ==
    /\ \E s \in Streams : stream_accessor(s, "mouse_events")
    /\ PoolThreadsIdle
    /\ UNCHANGED <<dvars, svars, rvars, wvars, qvars, fvars>>

events ==
    /\ \E s \in Streams : stream_accessor(s, "events")
    /\ PoolThreadsIdle
    /\ UNCHANGED <<dvars, svars, rvars, wvars, qvars, fvars>>

StreamInit == PoolInit /\ DecodeIdle /\ SysIdle /\ ReadersIdle /\ WinIdle /\ ResumeIdle /\ TtyIdle

StreamNext == NewConsumer \/ SingleWrite \/ key_events \/ mouse_events \/ events

SpecStream == StreamInit /\ [][StreamNext]_vars

\* C32: read_all returns every event written since the consumer's registration
\* or its previous read_all, in write order and each exactly once; with no
\* write in between it returns the empty list; what other consumers read has
\* no part in it.
C32_ReadAll ==
    [][\A s \in Streams :
         /\ registered_at'[s] >= 0 =>
              read_log'[s] = SubSeq(event_channel', registered_at'[s] + 1, read_upto'[s])
         /\ read_count'[s] # read_count[s] =>
              /\ read_upto'[s] = Len(event_channel)
              /\ read_log'[s]
                   = read_log[s] \o SubSeq(event_channel, read_upto[s] + 1, Len(event_channel))
              /\ read_upto[s] = Len(event_channel) => read_log'[s] = read_log[s]]_vars

\* stream2 registered after the first of three writes, stream1 before it, and
\* stream2 has read the second and the third event in two read_all calls
C32_Witness ==
    /\ Len(event_channel) = 3
    /\ registered_at["stream1"] = 0
    /\ registered_at["stream2"] = 1
    /\ read_count["stream2"] = 2
    /\ read_upto["stream2"] = 3
    /\ drained["stream2"] = <<event_channel[3]>>
    /\ read_log["stream2"] = <<event_channel[2], event_channel[3]>>
    /\ event_channel[1] # event_channel[2]
    /\ event_channel[2] # event_channel[3]

\* C33: an accessor call returns exactly the events of its kind among the
\* cached events (the cache extended by what the consumer read), in arrival
\* order, and leaves exactly the other events in the cache, in their order.
C33_AccessorsPartition ==
    [][\A s \in Streams :
         read_count'[s] # read_count[s] =>
           LET cached == input_cache[s]
                           \o SubSeq(event_channel, read_upto[s] + 1, Len(event_channel))
           IN /\ drained'[s] = SelectSeq(cached, LAMBDA e : Matches(e, accessor'[s]))
              /\ input_cache'[s] = SelectSeq(cached, LAMBDA e : ~Matches(e, accessor'[s]))]_vars

\* key_events took the two key events around a mouse event and left the mouse
\* event cached, then mouse_events took it
C33_Witness ==
    /\ event_channel = <<Key("Tab"), MouseUnknown, Key("Tab")>>
    /\ registered_at["stream1"] = 0
    /\ read_count["stream1"] = 2
    /\ accessor["stream1"] = "mouse_events"
    /\ drained["stream1"] = <<MouseUnknown>>
    /\ read_log["stream1"] = event_channel
    /\ input_cache["stream1"] = <<>>

(***************************************************************************)
(* The input pool: src/rewrite/input_pool.rs (event_pool.rs is the same)   *)
(***************************************************************************)
\* Result<Option<InputEvent>> of a source: Ok(Some(e)) and Err
SourceSome(e) == [kind |-> "Some", ev |-> e]
SourceErr == [kind |-> "Err", ev |-> NoEvent]

\* what input_event() of the pool's source can return
SourceItems == {SourceSome(Key("Tab")), SourceSome(MouseUnknown), SourceNone, SourceErr}

StreamsIdle ==
    UNCHANGED <<event_channel, read_id, input_cache, registered_at, read_upto,
                read_log, read_count, accessor, drained>>

\* InputPool::lock(): INPUT.lock(); it waits while another thread has the
\* guard and gives Err once INPUT is poisoned
lock ==
    /\ \E t \in PoolThreads :
         /\ tpc[t] = "idle"
         /\ pool_lock = "free"
         /\ IF poisoned
              THEN /\ tpc' = [tpc EXCEPT ![t] = "lock_err"]
                   /\ UNCHANGED pool_lock
              ELSE /\ tpc' = [tpc EXCEPT ![t] = "locked"]
                   /\ pool_lock' = t
    /\ UNCHANGED <<poisoned, polled>>
    /\ StreamsIdle
    /\ UNCHANGED <<dvars, svars, rvars, wvars, qvars, fvars>>

\* the guard is dropped
unlock ==
    /\ \E t \in PoolThreads :
         /\ tpc[t] = "locked"
         /\ tpc' = [tpc EXCEPT ![t] = "idle"]
         /\ pool_lock' = "free"
    /\ UNCHANGED <<poisoned, polled>>
    /\ StreamsIdle
    /\ UNCHANGED <<dvars, svars, rvars, wvars, qvars, fvars>>

\* InputPool::acquire_stream(&self) through the guard
acquire_stream ==
    /\ \E t \in PoolThreads, s \in Streams :
         /\ tpc[t] = "locked"
         /\ new_consumer(s)
    /\ PoolThreadsIdle
    /\ UNCHANGED <<dvars, svars, rvars, wvars, qvars, fvars>>

\* InputPool::poll(&mut self) through the guard, up to the call of
\* input_source.input_event(), which blocks until the source has something
poll_begin ==
    /\ \E t \in PoolThreads :
         /\ tpc[t] = "locked"
         /\ tpc' = [tpc EXCEPT ![t] = "polling"]
    /\ UNCHANGED <<pool_lock, poisoned, polled>>
    /\ StreamsIdle
    /\ UNCHANGED <<dvars, svars, rvars, wvars, qvars, fvars>>

\* input_event() returns: `?` on Err, unwrap() on the Option (a panic on
\* None, which unwinds through the guard and poisons INPUT), then
\* producer().produce_input_event(input_event)
poll_unwrap(item) == IF item.kind = "None" THEN "panicked" ELSE "locked"

poll_end ==
    /\ \E t \in PoolThreads, item \in SourceItems :
         /\ tpc[t] = "polling"
         /\ polled' = [polled EXCEPT ![t] = item]
         /\ tpc' = [tpc EXCEPT ![t] = poll_unwrap(item)]
         /\ IF poll_unwrap(item) = "panicked"
              THEN pool_lock' = "free" /\ poisoned' = TRUE
              ELSE UNCHANGED <<pool_lock, poisoned>>
         /\ IF item.kind = "Some" /\ poll_unwrap(item) = "locked"
              THEN produce_input_event(item.ev)
              ELSE StreamsIdle
    /\ UNCHANGED <<dvars, svars, rvars, wvars, qvars, fvars>>

PoolSpecInit == PoolInit /\ DecodeIdle /\ SysIdle /\ ReadersIdle /\ WinIdle /\ ResumeIdle /\ TtyIdle

PoolNext == lock \/ unlock \/ acquire_stream \/ poll_begin \/ poll_end \/ events

SpecPool == PoolSpecInit /\ [][PoolNext]_vars

\* C34: when the source's read returns Ok(None), poll publishes no event and
\* does not fail or panic, and the pool can still be locked and polled.
C34_NoneIsNotReady ==
    \A t \in PoolThreads :
      (tpc[t] # "idle" /\ polled[t] = SourceNone) =>
        (tpc[t] # "panicked" /\ ~poisoned)

\* C35: no thread holds the lock of the pool while it is blocked in the
\* source's read, so another thread can lock the pool and acquire a stream.
C35_NoLockAcrossIO ==
    \A t \in PoolThreads : tpc[t] = "polling" => pool_lock # t

\* the channels of the list whose receiver has not been dropped, in list order
LiveSenders == SelectSeq(senders, LAMBDA c : handle[c] # "dropped")

InSeq(c, seq) == \E i \in 1..Len(seq) : seq[i] = c

\* C36: a send gives the event to every channel whose receiver is alive,
\* removes exactly the channels whose receiver was dropped, keeps the others
\* in registration order, and returns false iff the list is empty afterwards
\* (the reading thread goes on to pause() exactly then).
C36_ChannelsSend ==
    [][\A t \in Threads :
         (wpc[t] = "send" /\ wpc'[t] # "send") =>
           /\ senders' = LiveSenders
           /\ \A c \in Consumers :
                IF InSeq(c, LiveSenders)
                  THEN /\ Len(queue'[c]) = Len(queue[c]) + 1
                       /\ SubSeq(queue'[c], 1, Len(queue[c])) = queue[c]
                       /\ queue'[c][Len(queue'[c])].ev = wev[t]
                  ELSE queue'[c] = queue[c]
           /\ (wpc'[t] = "pause") = (senders' = <<>>)]_vars

\* a send found the first registered receiver dropped and the second alive:
\* the first channel is gone, the second got the event, the thread goes on
C36_Witness ==
    /\ handle[1] = "dropped"
    /\ handle[2] = "live"
    /\ regAt[1] = 0
    /\ senders = <<2>>
    /\ Len(published) = 1
    /\ Len(queue[2]) = 1
    /\ queue[2][1].ev = published[1]
    /\ \E t \in Threads : wpc[t] = "check"

(***************************************************************************)
(* The reading loop fed with well-formed sequences, one byte at a time     *)
(***************************************************************************)
\* sequences in one stream
MaxSeqs == 2

WireSeq(bytes, ev) == [bytes |-> bytes, ev |-> ev]

\* sequences of the wire table with the event each stands for: keys, SS3 and
\* CSI keys, special keys, modifier arrows, X10, xterm and rxvt mouse, the
\* cursor report, UTF-8 scalars of two, three and four bytes
WireTable ==
    {WireSeq(<<97>>, KeyArg("Char", 97)),
     WireSeq(<<13>>, Key("Enter")),
     WireSeq(<<9>>, Key("Tab")),
     WireSeq(<<127>>, Key("Backspace")),
     WireSeq(<<1>>, KeyArg("Ctrl", 97)),
     WireSeq(<<ESC>>, Key("Esc")),
     WireSeq(<<ESC, 79, 80>>, KeyArg("F", 1)),
     WireSeq(<<ESC, 79, 83>>, KeyArg("F", 4)),
     WireSeq(<<ESC, 91, 65>>, Key("Up")),
     WireSeq(<<ESC, 91, 68>>, Key("Left")),
     WireSeq(<<ESC, 91, 72>>, Key("Home")),
     WireSeq(<<ESC, 91, 70>>, Key("End")),
     WireSeq(<<ESC, 91, 90>>, Key("BackTab")),
     WireSeq(<<ESC, 91, 51, 126>>, Key("Delete")),
     WireSeq(<<ESC, 91, 49, 53, 126>>, KeyArg("F", 5)),
     WireSeq(<<ESC, 91, 50, 52, 126>>, KeyArg("F", 12)),
     WireSeq(<<ESC, 91, 53, 65>>, Key("CtrlUp")),
     WireSeq(<<ESC, 91, 50, 68>>, Key("ShiftLeft")),
     WireSeq(<<ESC, 91, 49, 59, 53, 67>>, Key("CtrlRight")),
     WireSeq(<<ESC, 91, 77, 32, 33, 33>>, MousePress("Left", 0, 0)),
     WireSeq(<<ESC, 91, 77, 35, 48, 40>>, MouseRelease(15, 7)),
     WireSeq(<<ESC, 91, 60, 48, 59, 50, 48, 59, 49, 48, 77>>, MousePress("Left", 19, 9)),
     WireSeq(<<ESC, 91, 60, 48, 59, 50, 48, 59, 49, 48, 109>>, MouseRelease(19, 9)),
     WireSeq(<<ESC, 91, 51, 50, 59, 51, 48, 59, 52, 48, 59, 77>>,
             MousePress("Left", 29, 39)),
     WireSeq(<<ESC, 91, 50, 48, 59, 49, 48, 82>>, CursorPosition(9, 19)),
     WireSeq(<<195, 177>>, KeyArg("Char", 241)),
     WireSeq(<<226, 130, 172>>, KeyArg("Char", 8364)),
     WireSeq(<<240, 159, 152, 128>>, KeyArg("Char", 128512))}

ResumeInit ==
    /\ \E n \in 1..MaxSeqs : stream \in [1..n -> WireTable]
    /\ seq_i = 1
    /\ taken = <<>>
    /\ emitted = <<>>
    /\ DecodeIdle
    /\ SysIdle
    /\ ReadersIdle
    /\ WinIdle
    /\ PoolIdle
    /\ TtyIdle

\* what select can report after the given bytes of a sequence were read: more
\* input while the sequence is unfinished, whatever has arrived by then after
\* its last byte, and nothing after an ESC that is the Esc key (ESC alone)
Hints(bytes, n) ==
    IF n < Len(bytes) THEN {TRUE}
    ELSE IF bytes = <<ESC>> THEN {FALSE}
    ELSE BOOLEAN

\* One iteration of the loop on the next byte of the stream.  No sequence of
\* the table makes a subtraction overflow.
ResumeRead ==
    /\ loop_state = "select"
    /\ seq_i <= Len(stream)
    /\ LET bytes == stream[seq_i].bytes
           byte == bytes[Len(taken) + 1]
           buf == Append(buffer, byte)
       IN /\ taken' = Append(taken, byte)
          /\ \E hint \in Hints(bytes, Len(taken) + 1) :
               LET r == parse_event(buf, hint) IN
               /\ parsed' = buf
               /\ input_available' = hint
               /\ result' = r
               /\ buffer' = BufferAfter(buf, r)
               /\ sent' = ToSend(r)
               /\ emitted' = IF r.kind = "Event" THEN Append(emitted, r.ev) ELSE emitted
               /\ loop_state' = IF r.ovf THEN "panicked" ELSE "decoded"
    /\ UNCHANGED <<stream, seq_i, prev_kind, calls, svars, rvars, wvars, pvars, fvars>>

\* End of the iteration; the terminal goes on to its next sequence once the
\* last byte of this one was read.
ResumeLoopBack ==
    /\ loop_state = "decoded"
    /\ loop_state' = "select"
    /\ input_available' = FALSE
    /\ parsed' = <<>>
    /\ result' = Incomplete
    /\ sent' = NoEvent
    /\ prev_kind' = result.kind
    /\ IF taken = stream[seq_i].bytes
         THEN seq_i' = seq_i + 1 /\ taken' = <<>>
         ELSE UNCHANGED <<seq_i, taken>>
    /\ UNCHANGED <<buffer, calls, stream, emitted, svars, rvars, wvars, pvars, fvars>>

ResumeNext == ResumeRead \/ ResumeLoopBack

SpecResume == ResumeInit /\ [][ResumeNext]_vars

\* sequences of the stream read to their last byte
Completed ==
    IF seq_i <= Len(stream) /\ taken = stream[seq_i].bytes THEN seq_i ELSE seq_i - 1

\* C37: with the bytes appended one at a time, every proper prefix of a
\* well-formed sequence decodes to Incomplete and stays in the buffer, the
\* full sequence decodes to its event, and the loop has sent exactly the
\* events of the sequences read so far, in stream order.
C37_Resumable ==
    /\ emitted = [i \in 1..Completed |-> stream[i].ev]
    /\ (loop_state # "select" /\ seq_i <= Len(stream)) =>
         IF taken = stream[seq_i].bytes
           THEN result = Event(stream[seq_i].ev) /\ buffer = <<>>
           ELSE result = Incomplete /\ buffer = taken

\* an xterm mouse report was read after a UTF-8 scalar of three bytes, both
\* byte by byte, and the loop has sent the two events in that order
C37_Witness ==
    /\ Len(stream) = 2
    /\ stream[1].bytes = <<226, 130, 172>>
    /\ stream[2].bytes = <<ESC, 91, 60, 48, 59, 50, 48, 59, 49, 48, 77>>
    /\ seq_i = 2
    /\ taken = stream[2].bytes
    /\ loop_state = "decoded"
    /\ input_available
    /\ emitted = <<KeyArg("Char", 8364), MousePress("Left", 19, 9)>>

\* the buffer starts with the stray prefix ESC [ < or ESC [ digit
StrayPrefix(buf) ==
    /\ Len(buf) >= 4
    /\ buf[1] = ESC
    /\ buf[2] = 91
    /\ buf[3] = 60 \/ buf[3] \in 48..57

\* a byte after the prefix that no sequence of that form contains: after
\* ESC [ < anything but digits, ';', 'm', 'M'; after ESC [ digit a byte
\* outside the parameter, intermediate and final bytes of CSI (0x20..0x7E)
ForeignByte(buf) ==
    \E k \in 4..Len(buf) :
      IF buf[3] = 60
        THEN buf[k] \notin (48..57) \cup {59, 77, 109}
        ELSE buf[k] \notin 32..126

\* C38: a malformed sequence does not keep the decoder Incomplete: once a
\* byte that cannot belong to the sequence has arrived after a stray ESC [ <
\* or ESC [ digit, the buffer is not kept waiting for more bytes.
C38_MalformedCannotBlock ==
    (loop_state = "decoded" /\ StrayPrefix(parsed) /\ ForeignByte(parsed)) =>
      result.kind # "Incomplete"

(***************************************************************************)
(* TtyRaw: the descriptor of the reading thread (src/sys/unix.rs)          *)
(***************************************************************************)
\* bytes the controlling terminal holds at most
MaxTermBytes == 2
\* select calls of the worker
MaxSelects == 3

\* descriptors that are not open
FreeFds(tbl) == {n \in Fds : tbl[n] = "closed"}

\* open(2) returns the lowest descriptor that is not open
LowestFree(tbl) == CHOOSE n \in FreeFds(tbl) : \A m \in FreeFds(tbl) : n <= m

\* libc::select(1, &mut raw_fd_set, ..) with only descriptor n in the set:
\* nfds is 1, so descriptor 0 alone is examined. With n # 0 nothing is
\* examined and the call times out with 0; with n = 0 it fails on a closed
\* descriptor, reports the terminal's bytes, or whatever another file has.
select_result(tbl, n, bytes, other_ready) ==
    IF n = NoFd THEN "err"
    ELSE IF n # 0 THEN "false"
    ELSE IF tbl[0] = "closed" THEN "err"
    ELSE IF tbl[0] = "tty" THEN (IF bytes > 0 THEN "true" ELSE "false")
    ELSE (IF other_ready THEN "true" ELSE "false")

\* standard input is the terminal, a pipe or file, or closed; standard output
\* and standard error are open; the worker is about to build its TtyRaw
TtyInit ==
    /\ \E stdin \in {"tty", "pipe", "closed"} :
         files = [n \in Fds |-> IF n = 0 THEN stdin
                                ELSE IF n \in {1, 2} THEN "other" ELSE "closed"]
    /\ tty_fd = NoFd
    /\ source = "none"
    /\ term_bytes = 0
    /\ tpos = "new"
    /\ ready = "none"
    /\ seen_bytes = 0
    /\ selects = 0
    /\ got = <<>>
    /\ DecodeIdle
    /\ SysIdle
    /\ ReadersIdle
    /\ WinIdle
    /\ PoolIdle
    /\ ResumeIdle

\* TtyRaw::new: descriptor 0 if isatty(0), else open /dev/tty and keep the
\* number as_raw_fd gives; the File is dropped at the end of the closure,
\* which closes the descriptor. A failed open leaves fd = None.
TtyRaw_new ==
    /\ tpos = "new"
    /\ IF files[0] = "tty"
         THEN /\ tty_fd' = 0
              /\ source' = "stdin"
              /\ files' = files
         ELSE \E open_ok \in BOOLEAN :
                IF open_ok /\ FreeFds(files) # {}
                  THEN LET n == LowestFree(files)
                           opened == [files EXCEPT ![n] = "tty"]
                       IN /\ tty_fd' = n
                          /\ source' = "devtty"
                          /\ files' = [opened EXCEPT ![n] = "closed"]
                  ELSE /\ tty_fd' = NoFd
                       /\ source' = "none"
                       /\ files' = files
    /\ tpos' = "select"
    /\ UNCHANGED <<term_bytes, ready, seen_bytes, selects, got>>
    /\ UNCHANGED <<dvars, svars, rvars, wvars, pvars, qvars>>

\* tty_raw.select(100 ms) at the top of the loop: on Ok(true) the loop goes on
\* to read, on Ok(false) or Err it comes back to the select
TtyRaw_select ==
    /\ tpos = "select"
    /\ selects < MaxSelects
    /\ \E other_ready \in BOOLEAN :
         ready' = select_result(files, tty_fd, term_bytes, other_ready)
    /\ seen_bytes' = term_bytes
    /\ selects' = selects + 1
    /\ tpos' = IF ready' = "true" THEN "read" ELSE "select"
    /\ UNCHANGED <<files, tty_fd, source, term_bytes, got>>
    /\ UNCHANGED <<dvars, svars, rvars, wvars, pvars, qvars>>

\* tty_raw.read(): one byte from the descriptor, of whatever it is open on
TtyRaw_read ==
    /\ tpos = "read"
    /\ IF files[tty_fd] = "tty" /\ term_bytes > 0
         THEN /\ term_bytes' = term_bytes - 1
              /\ got' = Append(got, "tty")
         ELSE /\ term_bytes' = term_bytes
              /\ got' = IF files[tty_fd] \in {"pipe", "other"}
                          THEN Append(got, files[tty_fd]) ELSE got
    /\ tpos' = "select"
    /\ UNCHANGED <<files, tty_fd, source, ready, seen_bytes, selects>>
    /\ UNCHANGED <<dvars, svars, rvars, wvars, pvars, qvars>>

\* the user types: a byte arrives at the controlling terminal
TermInput ==
    /\ tpos # "idle"
    /\ term_bytes < MaxTermBytes
    /\ term_bytes' = term_bytes + 1
    /\ UNCHANGED <<files, tty_fd, source, tpos, ready, seen_bytes, selects, got>>
    /\ UNCHANGED <<dvars, svars, rvars, wvars, pvars, qvars>>

\* another part of the process opens a file: it gets the lowest free number
OtherOpen ==
    /\ tpos # "idle"
    /\ FreeFds(files) # {}
    /\ files' = [files EXCEPT ![LowestFree(files)] = "other"]
    /\ UNCHANGED <<tty_fd, source, term_bytes, tpos, ready, seen_bytes, selects, got>>
    /\ UNCHANGED <<dvars, svars, rvars, wvars, pvars, qvars>>

\* another part of the process closes one of its files
OtherClose ==
    /\ tpos # "idle"
    /\ \E n \in Fds \ {0, 1, 2} :
         /\ files[n] = "other"
         /\ files' = [files EXCEPT ![n] = "closed"]
    /\ UNCHANGED <<tty_fd, source, term_bytes, tpos, ready, seen_bytes, selects, got>>
    /\ UNCHANGED <<dvars, svars, rvars, wvars, pvars, qvars>>

TtyNext ==
    \/ TtyRaw_new
    \/ TtyRaw_select
    \/ TtyRaw_read
    \/ TermInput
    \/ OtherOpen
    \/ OtherClose

SpecTty == TtyInit /\ [][TtyNext]_vars

\* C39: when TtyRaw::new has fallen back to /dev/tty, the descriptor it holds
\* is open on the terminal, and a select made while bytes were waiting there
\* has reported them.
C39_TtyFallback ==
    source = "devtty" =>
      /\ files[tty_fd] = "tty"
      /\ ready \in {"false", "err"} => seen_bytes = 0

=============================================================================
